---- MODULE Spec2Model ----
(***************************************************************************)
(* A model of the clite front end and interpreter (src/lang): the lexer    *)
(* (lexer.py), the recursive-descent parser (parser.py) and the            *)
(* tree-walking interpreter (interpreter.py), run as Interpreter.run_code   *)
(* runs them: tokenize, parse, hoist, execute, call the entry point.        *)
(*                                                                         *)
(* Source text is a TLA+ string; positions are 0-based as in Python.       *)
(* The interpreter is modelled as a small-step machine: `ctl` is what is   *)
(* being executed or the value/exception being handed back, `stack` is the *)
(* chain of Python activation records that are waiting for it.             *)
(***************************************************************************)
EXTENDS Integers, Sequences, FiniteSets, TLC

(***************************************************************************)
(* Characters                                                              *)
(***************************************************************************)
Ch(code, pos) == SubSeq(code, pos + 1, pos + 1)

Slice(code, from, to) == SubSeq(code, from + 1, to)

Digits == {"0", "1", "2", "3", "4", "5", "6", "7", "8", "9"}

Letters ==
    {"a", "b", "c", "d", "e", "f", "g", "h", "i", "j", "k", "l", "m",
     "n", "o", "p", "q", "r", "s", "t", "u", "v", "w", "x", "y", "z",
     "A", "B", "C", "D", "E", "F", "G", "H", "I", "J", "K", "L", "M",
     "N", "O", "P", "Q", "R", "S", "T", "U", "V", "W", "X", "Y", "Z", "_"}

WordChars == Letters \cup Digits

Blank == {" ", "\t", "\r"}

(***************************************************************************)
(* tokens.py                                                               *)
(***************************************************************************)
KEYWORDS ==
    {"if", "else", "while", "for", "return", "break", "continue",
     "let", "fn", "struct", "typedef", "var", "const", "func",
     "true", "false", "null"}

OPERATORS2 ==
    {"==", "!=", "<=", ">=", "&&", "||", "++", "--",
     "+=", "-=", "*=", "/=", "%=", "->", "<<", ">>"}

OPERATORS1 ==
    {"+", "-", "*", "/", "%", "<", ">", "=", "!", "&", "|", "^", "~",
     "(", ")", "{", "}", "[", "]", ";", ",", ".", ":", "?"}

Token(type, value, line, column) ==
    [type |-> type, value |-> value, line |-> line, column |-> column]

(***************************************************************************)
(* lexer.py: the alternatives of _MASTER_REGEX.  Each operator gives the   *)
(* end position of the match of one named group at pos, or -1.             *)
(***************************************************************************)
RECURSIVE SpanWhile(_, _, _)
\* the end of the longest run of characters of `set` starting at pos
SpanWhile(code, pos, set) ==
    IF pos < Len(code) /\ Ch(code, pos) \in set
    THEN SpanWhile(code, pos + 1, set)
    ELSE pos

RECURSIVE SpanUntilNewline(_, _)
SpanUntilNewline(code, pos) ==
    IF pos < Len(code) /\ Ch(code, pos) # "\n"
    THEN SpanUntilNewline(code, pos + 1)
    ELSE pos

RECURSIVE FindCommentEnd(_, _)
\* the position just after the first "*/" at or after pos, or -1
FindCommentEnd(code, pos) ==
    IF pos + 2 > Len(code) THEN -1
    ELSE IF Slice(code, pos, pos + 2) = "*/" THEN pos + 2
    ELSE FindCommentEnd(code, pos + 1)

RECURSIVE StringBody(_, _)
\* ([^\\\n"]|\\.)*" : the position just after the closing quote, or -1
StringBody(code, pos) ==
    IF pos >= Len(code) THEN -1
    ELSE IF Ch(code, pos) = "\"" THEN pos + 1
    ELSE IF Ch(code, pos) = "\n" THEN -1
    ELSE IF Ch(code, pos) = "\\"
         THEN IF pos + 1 < Len(code) THEN StringBody(code, pos + 2) ELSE -1
    ELSE StringBody(code, pos + 1)

MatchNewline(code, pos) == IF Ch(code, pos) = "\n" THEN pos + 1 ELSE -1

MatchSkip(code, pos) ==
    IF Ch(code, pos) \in Blank THEN SpanWhile(code, pos, Blank) ELSE -1

MatchLineComment(code, pos) ==
    IF pos + 2 <= Len(code) /\ Slice(code, pos, pos + 2) = "//"
    THEN SpanUntilNewline(code, pos + 2)
    ELSE -1

RECURSIVE FindLastCommentEnd(_, _)
\* the position just after the last "*/" at or after pos, or -1
FindLastCommentEnd(code, pos) ==
    IF pos + 2 > Len(code) THEN -1
    ELSE LET later == FindLastCommentEnd(code, pos + 1)
         IN  IF later # -1 THEN later
             ELSE IF Slice(code, pos, pos + 2) = "*/" THEN pos + 2
             ELSE -1

\* /\*.*\*/ : a block comment that runs to the last "*/" of the source
MatchBlockCommentGreedy(code, pos) ==
    IF pos + 2 <= Len(code) /\ Slice(code, pos, pos + 2) = "/*"
    THEN FindLastCommentEnd(code, pos + 2)
    ELSE -1

MatchBlockComment(code, pos) ==
    IF pos + 2 <= Len(code) /\ Slice(code, pos, pos + 2) = "/*"
    THEN FindCommentEnd(code, pos + 2)
    ELSE -1

MatchString(code, pos) ==
    IF Ch(code, pos) = "\"" THEN StringBody(code, pos + 1) ELSE -1

MatchInt(code, pos) ==
    IF Ch(code, pos) \in Digits THEN SpanWhile(code, pos, Digits) ELSE -1

MatchFloat(code, pos) ==
    LET e == MatchInt(code, pos)
    IN  IF e # -1 /\ e + 1 < Len(code) /\ Ch(code, e) = "."
           /\ Ch(code, e + 1) \in Digits
        THEN SpanWhile(code, e + 1, Digits)
        ELSE -1

MatchIdent(code, pos) ==
    IF Ch(code, pos) \in Letters
    THEN SpanWhile(code, pos + 1, WordChars)
    ELSE -1

MatchOp(code, pos) ==
    IF pos + 2 <= Len(code) /\ Slice(code, pos, pos + 2) \in OPERATORS2
    THEN pos + 2
    ELSE IF Ch(code, pos) \in OPERATORS1 THEN pos + 1
    ELSE -1

\* _MASTER_REGEX.match(code, pos): the first alternative that matches
MasterMatch(code, pos) ==
    CASE MatchNewline(code, pos) # -1 ->
            [kind |-> "NEWLINE", end |-> MatchNewline(code, pos)]
      [] MatchSkip(code, pos) # -1 ->
            [kind |-> "SKIP", end |-> MatchSkip(code, pos)]
      [] MatchLineComment(code, pos) # -1 ->
            [kind |-> "LINE_COMMENT", end |-> MatchLineComment(code, pos)]
      [] MatchBlockComment(code, pos) # -1 ->
            [kind |-> "BLOCK_COMMENT", end |-> MatchBlockComment(code, pos)]
      [] MatchString(code, pos) # -1 ->
            [kind |-> "STRING", end |-> MatchString(code, pos)]
      [] MatchFloat(code, pos) # -1 ->
            [kind |-> "FLOAT", end |-> MatchFloat(code, pos)]
      [] MatchInt(code, pos) # -1 ->
            [kind |-> "INT", end |-> MatchInt(code, pos)]
      [] MatchIdent(code, pos) # -1 ->
            [kind |-> "IDENT", end |-> MatchIdent(code, pos)]
      [] MatchOp(code, pos) # -1 ->
            [kind |-> "OP", end |-> MatchOp(code, pos)]
      [] OTHER -> [kind |-> "NONE", end |-> -1]

\* the TokenType an OP lexeme is mapped to
OpTokenType(lexeme) ==
    CASE lexeme = "=" -> "ASSIGN"
      [] lexeme = ";" -> "END"
      [] lexeme = "(" -> "LPAREN"
      [] lexeme = ")" -> "RPAREN"
      [] lexeme = "{" -> "LBRACE"
      [] lexeme = "}" -> "RBRACE"
      [] lexeme = "[" -> "LBRACKET"
      [] lexeme = "]" -> "RBRACKET"
      [] lexeme = "," -> "COMMA"
      [] lexeme = "." -> "DOT"
      [] lexeme = ":" -> "COLON"
      [] OTHER -> "OP"

TokenTypeOf(kind, lexeme) ==
    CASE kind = "INT" -> "INT"
      [] kind = "FLOAT" -> "FLOAT"
      [] kind = "STRING" -> "STRING"
      [] kind = "IDENT" -> IF lexeme \in KEYWORDS THEN "KEYWORD" ELSE "IDENT"
      [] OTHER -> OpTokenType(lexeme)

\* one iteration of the while loop of tokenize, from its locals lex = (pos,
\* line, line_start) and its token list: the locals and the list after it, or
\* the SyntaxError it raises
tokenize_iteration(code, lex, toks) ==
    LET m == MasterMatch(code, lex.pos)
        lexeme == Slice(code, lex.pos, m.end)
    IN  CASE m.kind = "NONE" ->
               IF Ch(code, lex.pos) \in {"\n", " ", "\t", "\r"}
               THEN [ok |-> TRUE, lexer |-> [lex EXCEPT !.pos = @ + 1],
                     tokens |-> toks]
               ELSE [ok |-> FALSE, error |-> "SyntaxError",
                     ch |-> Ch(code, lex.pos), pos |-> lex.pos]
          [] m.kind = "NEWLINE" ->
               [ok |-> TRUE,
                lexer |-> [pos |-> m.end, line |-> lex.line + 1,
                           line_start |-> m.end],
                tokens |-> toks]
          [] m.kind \in {"SKIP", "LINE_COMMENT", "BLOCK_COMMENT"} ->
               [ok |-> TRUE, lexer |-> [lex EXCEPT !.pos = m.end], tokens |-> toks]
          [] OTHER ->
               [ok |-> TRUE, lexer |-> [lex EXCEPT !.pos = m.end],
                tokens |-> Append(toks,
                    Token(TokenTypeOf(m.kind, lexeme), lexeme, lex.line,
                          lex.pos - lex.line_start + 1))]

LexerStart == [pos |-> 0, line |-> 1, line_start |-> 0]

(***************************************************************************)
(* ast.py: the node classes, as records tagged by class name in field k.   *)
(* A Python list of statements (a block) is [k |-> "list"]; a raw Token    *)
(* standing where an expression is expected is [k |-> "Token"].            *)
(***************************************************************************)
Program(statements) == [k |-> "Program", statements |-> statements]

VarDecl(var_name, var_type, init_value) ==
    [k |-> "VarDecl", var_name |-> var_name, var_type |-> var_type,
     init_value |-> init_value]

FuncDecl(func_name, params, body) ==
    [k |-> "FuncDecl", func_name |-> func_name, params |-> params, body |-> body]

IfStmt(condition, then_branch, else_branch) ==
    [k |-> "IfStmt", condition |-> condition, then_branch |-> then_branch,
     else_branch |-> else_branch]

WhileStmt(condition, body) ==
    [k |-> "WhileStmt", condition |-> condition, body |-> body]

ForStmt(init, condition, increment, body) ==
    [k |-> "ForStmt", init |-> init, condition |-> condition,
     increment |-> increment, body |-> body]

ReturnStmt(value) == [k |-> "ReturnStmt", value |-> value]

BreakStmt == [k |-> "BreakStmt"]

ContinueStmt == [k |-> "ContinueStmt"]

AssignStmt(var_name, value) ==
    [k |-> "AssignStmt", var_name |-> var_name, value |-> value]

BinaryExpr(left, operator, right) ==
    [k |-> "BinaryExpr", left |-> left, operator |-> operator, right |-> right]

UnaryExpr(operator, operand) ==
    [k |-> "UnaryExpr", operator |-> operator, operand |-> operand]

Literal(value) == [k |-> "Literal", value |-> value]

Identifier(name) == [k |-> "Identifier", name |-> name]

CallExpr(callee, args) == [k |-> "CallExpr", callee |-> callee, args |-> args]

StmtList(items) == [k |-> "list", items |-> items]

RawToken(tok) == [k |-> "Token", tok |-> tok]

NoneNode == [k |-> "None"]

\* isinstance(node, Expr)
IsExpr(node) ==
    node.k \in {"BinaryExpr", "UnaryExpr", "Literal", "Identifier", "CallExpr"}

(***************************************************************************)
(* parser.py.  Every parse function takes the token list and the value of  *)
(* current_token_index and gives [ok |-> TRUE, node, pos] with the new     *)
(* index, or [ok |-> FALSE, error, msg, pos] for the exception it raises.  *)
(***************************************************************************)
Ok(node, pos) == [ok |-> TRUE, node |-> node, pos |-> pos]

Raise(msg, pos) == [ok |-> FALSE, error |-> "Exception", msg |-> msg, pos |-> pos]

Tok(toks, pos) == toks[pos + 1]

peek(toks, pos) ==
    IF pos < Len(toks) THEN Ok(Tok(toks, pos), pos)
    ELSE Raise("Unexpected end of input", pos)

\* match(expected_type): TRUE when the token was consumed
match(toks, pos, expected_type) ==
    pos < Len(toks) /\ Tok(toks, pos).type = expected_type

_check_type(toks, pos, token_type) ==
    pos < Len(toks) /\ Tok(toks, pos).type = token_type

_check_value(toks, pos, value) ==
    pos < Len(toks) /\ Tok(toks, pos).value = value

expect(toks, pos, expected_type) ==
    LET t == peek(toks, pos)
    IN  IF ~t.ok THEN t
        ELSE IF t.node.type = expected_type THEN Ok(t.node, pos + 1)
        ELSE Raise("Expected token type", pos)

expect_type(toks, pos, token_type) ==
    LET t == peek(toks, pos)
    IN  IF ~t.ok THEN t
        ELSE IF t.node.type = token_type THEN Ok(t.node, pos + 1)
        ELSE Raise("Expected token type", pos)

expect_value(toks, pos, value) ==
    LET t == peek(toks, pos)
    IN  IF ~t.ok THEN t
        ELSE IF t.node.value = value THEN Ok(t.node, pos + 1)
        ELSE Raise("Expected token value", pos)

\* the rest of a parse function runs when the call before it raised nothing
AndThen(r, F(_)) == IF r.ok THEN F(r) ELSE r

\* "Unwrap literal to inner token"
Unwrap(value) == IF value.k = "Literal" THEN RawToken(value.value) ELSE value

\* the operators of the binary level n, lowest precedence first:
\* parse_or, parse_and, parse_equality, parse_relational, parse_additive,
\* parse_multiplicative
\* the levels with the additive and the multiplicative operators exchanged
LevelOpsExchanged(n) ==
    CASE n = 1 -> {"||"}
      [] n = 2 -> {"&&"}
      [] n = 3 -> {"==", "!="}
      [] n = 4 -> {"<", "<=", ">", ">="}
      [] n = 5 -> {"*", "/", "%"}
      [] n = 6 -> {"+", "-"}

LevelOps(n) ==
    CASE n = 1 -> {"||"}
      [] n = 2 -> {"&&"}
      [] n = 3 -> {"==", "!="}
      [] n = 4 -> {"<", "<=", ">", ">="}
      [] n = 5 -> {"+", "-"}
      [] n = 6 -> {"*", "/", "%"}

RECURSIVE parse_level(_, _, _), parse_levels(_, _, _, _),
          parse_level_loop(_, _, _, _), parse_unary(_, _),
          parse_call_loop(_, _, _), parse_args_loop(_, _, _), parse_primary(_, _)

parse_expression(toks, pos) == parse_level(1, toks, pos)

\* the operand of level n: the next level, or parse_unary after the last
parse_operand(n, toks, pos) ==
    IF n = 6 THEN parse_unary(toks, pos) ELSE parse_level(n + 1, toks, pos)

\* a binary level: expr = operand(); while ...
\* Every level calls the next one before it does anything else, so the first
\* operand of the levels n to 6 is one and the same call of parse_unary; the
\* while loops of these levels then run on it from level 6 outwards.
parse_level(n, toks, pos) == parse_levels(6, n, toks, parse_unary(toks, pos))

\* the while loops of the levels k, k - 1, ..., n, from the first operand on
parse_levels(k, n, toks, first) ==
    IF first.ok /\ k >= n
    THEN parse_levels(k - 1, n, toks,
                      parse_level_loop(k, toks, first.node, first.pos))
    ELSE first

\* while self._check_value(op): op = consume(); right = operand(); expr = BinaryExpr(...)
parse_level_loop(n, toks, expr, pos) ==
    IF \E v \in LevelOps(n) : _check_value(toks, pos, v)
    THEN AndThen(parse_operand(n, toks, pos + 1), LAMBDA right :
         parse_level_loop(n, toks, BinaryExpr(expr, Tok(toks, pos), right.node),
                          right.pos))
    ELSE Ok(expr, pos)

parse_call(toks, pos) ==
    AndThen(parse_primary(toks, pos), LAMBDA prim :
    parse_call_loop(toks, prim.node, prim.pos))

\* a prefix operator that takes a whole multiplicative operation as operand
parse_unary_loose(toks, pos) ==
    IF _check_value(toks, pos, "!") \/ _check_value(toks, pos, "-")
    THEN AndThen(parse_level(6, toks, pos + 1), LAMBDA operand :
         Ok(UnaryExpr(Tok(toks, pos), operand.node), operand.pos))
    ELSE parse_call(toks, pos)

parse_unary(toks, pos) ==
    IF _check_value(toks, pos, "!") \/ _check_value(toks, pos, "-")
    THEN AndThen(parse_unary(toks, pos + 1), LAMBDA operand :
         Ok(UnaryExpr(Tok(toks, pos), operand.node), operand.pos))
    ELSE parse_call(toks, pos)

\* the argument list of a call, the LPAREN consumed
parse_args(toks, pos) ==
    IF _check_type(toks, pos, "RPAREN") THEN Ok(<<>>, pos)
    ELSE AndThen(parse_expression(toks, pos), LAMBDA a :
         parse_args_loop(toks, <<a.node>>, a.pos))

\* the while loop of parse_call
parse_call_loop(toks, expr, pos) ==
    IF _check_type(toks, pos, "LPAREN")
    THEN AndThen(parse_args(toks, pos + 1), LAMBDA args :
         AndThen(expect(toks, args.pos, "RPAREN"), LAMBDA close :
         parse_call_loop(toks, CallExpr(expr, args.node), close.pos)))
    ELSE Ok(expr, pos)

\* while self._check_type(COMMA): consume(); args.append(parse_expression())
parse_args_loop(toks, args, pos) ==
    IF _check_type(toks, pos, "COMMA")
    THEN AndThen(parse_expression(toks, pos + 1), LAMBDA a :
         parse_args_loop(toks, Append(args, a.node), a.pos))
    ELSE Ok(args, pos)

\* parse_primary, the token peeked
PrimaryOf(toks, pos, token) ==
    CASE token.type \in {"INT", "FLOAT", "STRING"} -> Ok(Literal(token), pos + 1)
      [] token.type = "KEYWORD" /\ token.value \in {"true", "false", "null"} ->
            Ok(Literal(token), pos + 1)
      [] token.type = "IDENT" -> Ok(Identifier(token), pos + 1)
      [] token.type = "LPAREN" ->
            AndThen(parse_expression(toks, pos + 1), LAMBDA e :
            AndThen(expect(toks, e.pos, "RPAREN"), LAMBDA close :
            Ok(e.node, close.pos)))
      [] OTHER -> Raise("Unexpected token in expression", pos)

parse_primary(toks, pos) ==
    AndThen(peek(toks, pos), LAMBDA t : PrimaryOf(toks, pos, t.node))

\* parse_assign_or_expr_stmt after "if self.match('ASSIGN')", the match made
AssignOf(toks, expr, pos) ==
    AndThen(parse_expression(toks, pos), LAMBDA value :
    AndThen(expect(toks, value.pos, "END"), LAMBDA end :
    IF expr.k = "Identifier"
    THEN Ok(AssignStmt(expr.name, Unwrap(value.node)), end.pos)
    ELSE Raise("Invalid assignment target", end.pos)))

parse_assign_or_expr_stmt(toks, pos) ==
    AndThen(parse_expression(toks, pos), LAMBDA expr :
    IF match(toks, expr.pos, "ASSIGN")
    THEN AssignOf(toks, expr.node, expr.pos + 1)
    ELSE AndThen(expect(toks, expr.pos, "END"), LAMBDA end :
         Ok(expr.node, end.pos)))

\* (the statements up to the nested parse are grouped as a head, whose node
\* holds what the rest of the function uses)
parse_var_decl(toks, pos) ==
    AndThen(AndThen(expect_value(toks, pos, "let"), LAMBDA a :
            AndThen(expect_type(toks, a.pos, "IDENT"), LAMBDA var_name :
            AndThen(expect_value(toks, var_name.pos, ":"), LAMBDA b :
            AndThen(expect_type(toks, b.pos, "IDENT"), LAMBDA var_type :
            AndThen(expect_value(toks, var_type.pos, "="), LAMBDA c :
            Ok([var_name |-> var_name.node, var_type |-> var_type.node],
               c.pos)))))), LAMBDA head :
    AndThen(parse_expression(toks, head.pos), LAMBDA init_value :
    AndThen(expect(toks, init_value.pos, "END"), LAMBDA end :
    Ok(VarDecl(head.node.var_name, head.node.var_type, init_value.node),
       end.pos))))

RECURSIVE parse_params_loop(_, _, _)
\* the while loop of parse_params
parse_params_loop(toks, params, pos) ==
    AndThen(peek(toks, pos), LAMBDA t :
    IF t.node.type # "IDENT" THEN Ok(params, pos)
    ELSE AndThen(expect_value(toks, pos + 1, ":"), LAMBDA a :
         AndThen(expect_type(toks, a.pos, "IDENT"), LAMBDA param_type :
         IF match(toks, param_type.pos, "COMMA")
         THEN parse_params_loop(toks, Append(params, <<t.node, param_type.node>>),
                                param_type.pos + 1)
         ELSE Ok(Append(params, <<t.node, param_type.node>>), param_type.pos))))

parse_params(toks, pos) == parse_params_loop(toks, <<>>, pos)

(***************************************************************************)
(* The statements that hold statements.  A parse function that calls       *)
(* parse_statement or parse_block for a nested statement leaves an         *)
(* activation on `frames` and the nested call is the next step of the      *)
(* parser; the nested call's return (Return) resumes it.  A step gives     *)
(* [ok |-> TRUE, frames, pos, returned], where returned holds the          *)
(* statement that parse_statement returned to Parser.parse, if it did.     *)
(***************************************************************************)
Waiting(frames, pos) ==
    [ok |-> TRUE, frames |-> frames, pos |-> pos, returned |-> <<>>]

ToParse(node, pos) ==
    [ok |-> TRUE, frames |-> <<>>, pos |-> pos, returned |-> <<node>>]

Caller(frames) == frames[Len(frames)]

Callers(frames) == SubSeq(frames, 1, Len(frames) - 1)

RECURSIVE Return(_, _, _, _), parse_block_loop(_, _, _, _)

\* parse_if_stmt from "if self.peek()... == 'else'", the token peeked
ElseOf(toks, frames, then_branch, pos, token) ==
    IF token.type = "KEYWORD" /\ token.value = "else"
    THEN Waiting(Append(Callers(frames),
                        [Caller(frames) EXCEPT !.at = "else_branch",
                                               !.then_branch = then_branch]),
                 pos + 1)
    ELSE Return(toks, Callers(frames),
                IfStmt(Caller(frames).condition, then_branch, NoneNode), pos)

\* parse_statement or parse_block returns node to the activation that called it
Return(toks, frames, node, pos) ==
    IF frames = <<>> THEN ToParse(node, pos)
    ELSE CASE Caller(frames).k = "parse_block" ->
                 parse_block_loop(toks, Callers(frames),
                                  Append(Caller(frames).statements, node), pos)
           [] Caller(frames).k = "parse_func_decl" ->
                 Return(toks, Callers(frames),
                        FuncDecl(Caller(frames).func_name, Caller(frames).params,
                                 node), pos)
           [] Caller(frames).k = "parse_if_stmt" /\ Caller(frames).at = "then_branch" ->
                 AndThen(peek(toks, pos), LAMBDA t :
                 ElseOf(toks, frames, node, pos, t.node))
           [] Caller(frames).k = "parse_if_stmt" /\ Caller(frames).at = "else_branch" ->
                 Return(toks, Callers(frames),
                        IfStmt(Caller(frames).condition,
                               Caller(frames).then_branch, node), pos)
           [] Caller(frames).k = "parse_while_stmt" ->
                 Return(toks, Callers(frames),
                        WhileStmt(Caller(frames).condition, node), pos)
           [] Caller(frames).k = "parse_for_stmt" ->
                 Return(toks, Callers(frames),
                        ForStmt(Caller(frames).init, Caller(frames).condition,
                                Caller(frames).increment, node), pos)

\* while not self.match('RBRACE'): statements.append(self.parse_statement())
parse_block_loop(toks, frames, statements, pos) ==
    IF match(toks, pos, "RBRACE")
    THEN Return(toks, frames, StmtList(statements), pos + 1)
    ELSE Waiting(Append(frames, [k |-> "parse_block", statements |-> statements]),
                 pos)

parse_block(toks, frames, pos) ==
    AndThen(expect(toks, pos, "LBRACE"), LAMBDA open :
    parse_block_loop(toks, frames, <<>>, open.pos))

parse_func_decl(toks, frames, pos) ==
    AndThen(AndThen(expect_value(toks, pos, "fn"), LAMBDA a :
            AndThen(expect_type(toks, a.pos, "IDENT"), LAMBDA func_name :
            AndThen(expect(toks, func_name.pos, "LPAREN"), LAMBDA b :
            AndThen(parse_params(toks, b.pos), LAMBDA params :
            AndThen(expect(toks, params.pos, "RPAREN"), LAMBDA c :
            AndThen(expect_value(toks, c.pos, ":"), LAMBDA d :
            AndThen(expect_type(toks, d.pos, "IDENT"), LAMBDA return_type :
            Ok([k |-> "parse_func_decl", func_name |-> func_name.node,
                params |-> params.node], return_type.pos)))))))), LAMBDA head :
    parse_block(toks, Append(frames, head.node), head.pos))

\* if ( expression ), the condition as the node
parse_condition(toks, pos, keyword) ==
    AndThen(AndThen(expect_value(toks, pos, keyword), LAMBDA a :
            expect(toks, a.pos, "LPAREN")), LAMBDA b :
    AndThen(parse_expression(toks, b.pos), LAMBDA condition :
    AndThen(expect(toks, condition.pos, "RPAREN"), LAMBDA c :
    Ok(condition.node, c.pos))))

parse_if_stmt(toks, frames, pos) ==
    AndThen(parse_condition(toks, pos, "if"), LAMBDA condition :
    Waiting(Append(frames, [k |-> "parse_if_stmt", at |-> "then_branch",
                            condition |-> condition.node,
                            then_branch |-> NoneNode]), condition.pos))

parse_while_stmt(toks, frames, pos) ==
    AndThen(parse_condition(toks, pos, "while"), LAMBDA condition :
    Waiting(Append(frames, [k |-> "parse_while_stmt",
                            condition |-> condition.node]), condition.pos))

parse_for_stmt(toks, frames, pos) ==
    AndThen(AndThen(expect_value(toks, pos, "for"), LAMBDA a :
            expect(toks, a.pos, "LPAREN")), LAMBDA b :
    AndThen(parse_assign_or_expr_stmt(toks, b.pos), LAMBDA init :
    AndThen(AndThen(parse_expression(toks, init.pos), LAMBDA condition :
            AndThen(expect(toks, condition.pos, "END"), LAMBDA c :
            Ok(condition.node, c.pos))), LAMBDA condition :
    AndThen(parse_assign_or_expr_stmt(toks, condition.pos), LAMBDA increment :
    AndThen(expect(toks, increment.pos, "RPAREN"), LAMBDA d :
    Waiting(Append(frames, [k |-> "parse_for_stmt", init |-> init.node,
                            condition |-> condition.node,
                            increment |-> increment.node]), d.pos))))))

parse_return_stmt(toks, pos) ==
    AndThen(expect_value(toks, pos, "return"), LAMBDA a :
    AndThen(parse_expression(toks, a.pos), LAMBDA value :
    AndThen(expect(toks, value.pos, "END"), LAMBDA end :
    Ok(ReturnStmt(Unwrap(value.node)), end.pos))))

\* break and continue recognised by the peek alone, nothing consumed
parse_jump_peeked(toks, pos, node) == Ok(node, pos)

\* break; and continue; : self.consume(); self.expect('END'); return node
parse_jump(toks, pos, node) ==
    AndThen(expect(toks, pos + 1, "END"), LAMBDA end : Ok(node, end.pos))

\* the parse function of a statement that holds no statement returns
Returns(toks, frames, st) ==
    AndThen(st, LAMBDA r : Return(toks, frames, r.node, r.pos))

\* parse_statement, the token peeked
StatementOf(toks, frames, pos, token) ==
    CASE token.type = "KEYWORD" /\ token.value = "let" ->
            Returns(toks, frames, parse_var_decl(toks, pos))
      [] token.type = "KEYWORD" /\ token.value = "fn" ->
            parse_func_decl(toks, frames, pos)
      [] token.type = "KEYWORD" /\ token.value = "if" ->
            parse_if_stmt(toks, frames, pos)
      [] token.type = "KEYWORD" /\ token.value = "while" ->
            parse_while_stmt(toks, frames, pos)
      [] token.type = "KEYWORD" /\ token.value = "for" ->
            parse_for_stmt(toks, frames, pos)
      [] token.type = "KEYWORD" /\ token.value = "return" ->
            Returns(toks, frames, parse_return_stmt(toks, pos))
      [] token.type = "KEYWORD" /\ token.value = "break" ->
            Returns(toks, frames, parse_jump(toks, pos, BreakStmt))
      [] token.type = "KEYWORD" /\ token.value = "continue" ->
            Returns(toks, frames, parse_jump(toks, pos, ContinueStmt))
      [] token.type = "LBRACE" -> parse_block(toks, frames, pos)
      [] OTHER -> Returns(toks, frames, parse_assign_or_expr_stmt(toks, pos))

parse_statement(toks, frames, pos) ==
    AndThen(peek(toks, pos), LAMBDA t : StatementOf(toks, frames, pos, t.node))

(***************************************************************************)
(* interpreter.py: values.  A Python value is [t |-> type, v |-> payload]; *)
(* bool keeps its numeric payload (True is 1), as bool is an int in Python. *)
(***************************************************************************)
VInt(n) == [t |-> "int", v |-> n]

VBool(b) == [t |-> "bool", v |-> IF b THEN 1 ELSE 0]

VNone == [t |-> "none", v |-> 0]

VStr(str) == [t |-> "str", v |-> str]

VFunction(fn) == [t |-> "Function", v |-> fn]

VBuiltin(name) == [t |-> "builtin", v |-> name]

IsNumber(val) == val.t \in {"int", "bool"}

\* the Function dataclass
Function(name, params, body, closure) ==
    [name |-> name, params |-> params, body |-> body, closure |-> closure]

\* a truthiness in which only the absence value and false are falsy
truthy_not_null(val) ==
    CASE val.t = "none" -> FALSE
      [] val.t = "bool" -> val.v # 0
      [] OTHER -> TRUE

\* bool(v)
truthy(val) ==
    CASE val.t = "none" -> FALSE
      [] val.t \in {"int", "bool"} -> val.v # 0
      [] val.t = "str" -> val.v # ""
      [] OTHER -> TRUE

DigitValue(c) ==
    CASE c = "0" -> 0 [] c = "1" -> 1 [] c = "2" -> 2 [] c = "3" -> 3
      [] c = "4" -> 4 [] c = "5" -> 5 [] c = "6" -> 6 [] c = "7" -> 7
      [] c = "8" -> 8 [] c = "9" -> 9

RECURSIVE ParseInt(_, _)
\* int(s) of a string of decimal digits: the value of its first n characters
ParseInt(str, n) ==
    IF n = 0 THEN 0
    ELSE 10 * ParseInt(str, n - 1) + DigitValue(Ch(str, n - 1))

RECURSIVE Unescape(_, _)
\* decode("unicode_escape") of str from position pos, for the escapes
\* \n \t \r \\ \" (the others are not used by the inputs of this model)
Unescape(str, pos) ==
    IF pos >= Len(str) THEN ""
    ELSE IF Ch(str, pos) = "\\" /\ pos + 1 < Len(str)
    THEN LET c == Ch(str, pos + 1)
             d == CASE c = "n" -> "\n" [] c = "t" -> "\t" [] c = "r" -> "\r"
                    [] OTHER -> c
         IN  d \o Unescape(str, pos + 2)
    ELSE Ch(str, pos) \o Unescape(str, pos + 1)

_unquote(str) ==
    IF Len(str) >= 2 /\ Ch(str, 0) = "\"" /\ Ch(str, Len(str) - 1) = "\""
    THEN Unescape(Slice(str, 1, Len(str) - 1), 0)
    ELSE Unescape(str, 0)

literal_from_token(tok) ==
    CASE tok.type = "INT" -> VInt(ParseInt(tok.value, Len(tok.value)))
      [] tok.type = "STRING" -> VStr(_unquote(tok.value))
      [] tok.type = "KEYWORD" /\ tok.value = "true" -> VBool(TRUE)
      [] tok.type = "KEYWORD" /\ tok.value = "false" -> VBool(FALSE)
      [] tok.type = "KEYWORD" /\ tok.value = "null" -> VNone
      [] OTHER -> VStr(tok.value)

(***************************************************************************)
(* Exceptions.  The three signal classes and the errors Python raises.     *)
(***************************************************************************)
Exc(type, value) == [type |-> type, value |-> value]

ReturnSignal(value) == Exc("ReturnSignal", value)

BreakSignal == Exc("BreakSignal", VNone)

ContinueSignal == Exc("ContinueSignal", VNone)

\* NameError(f"Undefined variable '{name}'")
NameError(name) ==
    Exc("NameError", VStr("Undefined variable '" \o name \o "'"))

RuntimeError(msg) == Exc("RuntimeError", VStr(msg))

TypeError == Exc("TypeError", VNone)

ZeroDivisionError == Exc("ZeroDivisionError", VNone)

Signals == {"ReturnSignal", "BreakSignal", "ContinueSignal"}

Good(val) == [ok |-> TRUE, v |-> val]

Bad(exc) == [ok |-> FALSE, exc |-> exc]

\* Python's floor division and modulo of integers, b # 0
FloorDiv(a, b) ==
    IF b > 0 THEN a \div b ELSE (-a) \div (-b)

PyMod(a, b) == a - b * FloorDiv(a, b)

\* -val
Negate(val) == IF IsNumber(val) THEN Good(VInt(-val.v)) ELSE Bad(TypeError)

\* left == right
PyEq(l, r) ==
    CASE IsNumber(l) /\ IsNumber(r) -> l.v = r.v
      [] l.t = r.t -> l.v = r.v
      [] OTHER -> FALSE

\* the arithmetic, relational and equality operators of eval_expr on
\* evaluated operands (integers, booleans, None, strings under + == !=)
BinaryOp(op, l, r) ==
    CASE op = "==" -> Good(VBool(PyEq(l, r)))
      [] op = "!=" -> Good(VBool(~PyEq(l, r)))
      [] op = "+" /\ l.t = "str" /\ r.t = "str" -> Good(VStr(l.v \o r.v))
      [] ~(IsNumber(l) /\ IsNumber(r)) -> Bad(TypeError)
      [] op = "+" -> Good(VInt(l.v + r.v))
      [] op = "-" -> Good(VInt(l.v - r.v))
      [] op = "*" -> Good(VInt(l.v * r.v))
      [] op = "%" -> IF r.v = 0 THEN Bad(ZeroDivisionError)
                     ELSE Good(VInt(PyMod(l.v, r.v)))
      [] op = "<" -> Good(VBool(l.v < r.v))
      [] op = "<=" -> Good(VBool(l.v <= r.v))
      [] op = ">" -> Good(VBool(l.v > r.v))
      [] op = ">=" -> Good(VBool(l.v >= r.v))
      [] OTHER -> Bad(RuntimeError("Unsupported binary operator"))

(***************************************************************************)
(* Env.  `envs` is the heap of Env objects, an Env being named by its      *)
(* index; parent 0 is Python's None.  values maps names to values.         *)
(***************************************************************************)
NoParent == 0

Env(parent) == [parent |-> parent, values |-> <<>>]

Bind(values, name, value) ==
    [n \in DOMAIN values \cup {name} |-> IF n = name THEN value ELSE values[n]]

Store(heap, e, name, value) ==
    [heap EXCEPT ![e].values = Bind(heap[e].values, name, value)]

RECURSIVE Env_get_none(_, _, _)
\* a lookup that gives None for a name that nothing binds
Env_get_none(heap, e, name) ==
    IF name \in DOMAIN heap[e].values THEN Good(heap[e].values[name])
    ELSE IF heap[e].parent # NoParent
    THEN Env_get_none(heap, heap[e].parent, name)
    ELSE Good(VNone)

RECURSIVE Env_get(_, _, _)
Env_get(heap, e, name) ==
    IF name \in DOMAIN heap[e].values THEN Good(heap[e].values[name])
    ELSE IF heap[e].parent # NoParent THEN Env_get(heap, heap[e].parent, name)
    ELSE Bad(NameError(name))

RECURSIVE Env_assign_lenient(_, _, _, _)
\* an assign that falls back to defining the name in the scope it started from
Env_assign_lenient(heap, e, name, value) ==
    IF ~Env_get(heap, e, name).ok THEN Good(Store(heap, e, name, value))
    ELSE IF name \in DOMAIN heap[e].values THEN Good(Store(heap, e, name, value))
    ELSE Env_assign_lenient(heap, heap[e].parent, name, value)

\* an assign that never walks outward
Env_assign_here(heap, e, name, value) == Good(Store(heap, e, name, value))

RECURSIVE Env_assign(_, _, _, _)
\* gives the heap after the assignment, or the NameError
Env_assign(heap, e, name, value) ==
    IF name \in DOMAIN heap[e].values THEN Good(Store(heap, e, name, value))
    ELSE IF heap[e].parent # NoParent
    THEN Env_assign(heap, heap[e].parent, name, value)
    ELSE Bad(NameError(name))

Env_set(heap, e, name, value) ==
    IF name \in DOMAIN heap[e].values THEN Store(heap, e, name, value)
    ELSE LET up == IF heap[e].parent # NoParent
                   THEN Env_assign(heap, heap[e].parent, name, value)
                   ELSE Bad(NameError(name))
         IN  IF up.ok THEN up.v ELSE Store(heap, e, name, value)

Globals == 1

(***************************************************************************)
(* The inputs: source texts with the entry point handed to run_code.       *)
(***************************************************************************)
NoEntry == ""

Input(code, entry) == [code |-> code, entry |-> entry]

\* a break at top level
SrcTopBreak == "break;"

\* a continue at top level
SrcTopContinue == "continue;"

\* a return at top level
SrcTopReturn == "return 5;"

\* a break in a function body, outside any loop
SrcFnBreak == "fn f(): int { break; } f();"

\* a let in a block, of a name the global scope binds
SrcShadow == "let x:int = 1; { let x:int = 2; } let y:int = x;"

\* an assignment, in a block, to a name no scope binds
SrcAssignUnbound == "{ y = 1; }"

\* a read of a name no scope binds
SrcReadUnbound == "y;"

\* assignments to a name of an enclosing scope and to one of the current scope
SrcAssignOuter ==
    "let x:int = 1; { let y:int = 2; x = 3; y = 4; } let z:int = x;"

\* a break with no loop around it in its function, called from a loop
SrcCalleeBreak ==
    "fn f(): int { break; } let n:int = 0; while (n < 3) { n = n + "
    \o "1; f(); n = n + 10; }"

\* the same with continue
SrcCalleeContinue ==
    "fn f(): int { continue; } let n:int = 0; while (n < 3) { n = n "
    \o "+ 1; f(); n = n + 10; }"

\* a function returned from the function that declares it
SrcClosure ==
    "fn mk(): int { let c:int = 0; fn inc(): int { c = c + 1; return "
    \o "c; } return inc; } let f:int = mk(); let a:int = f(); let b:int "
    \o "= f();"

\* the for loop of the language's description
SrcForLet == "for (let i:int=0; i<10; i=i+1) { if (i==3) { break; } }"

\* a for loop with counters: a counts init, d the condition, b the body, c the
\* increment; iterations end normally, by continue and by break
SrcForBreak ==
    "let a:int = 0; let b:int = 0; let c:int = 0; let d:int = 0; let "
    \o "i:int = 0; fn init(): int { a = a + 1; return 0; } fn cond(): "
    \o "int { d = d + 1; return i < 5; } fn inc(): int { c = c + 1; i = "
    \o "i + 1; } for (i = init(); cond(); inc();) { b = b + 1; if (i == "
    \o "1) { continue; } if (i == 3) { break; } }"

\* the same loop, ended by its condition
SrcForEnd ==
    "let a:int = 0; let b:int = 0; let c:int = 0; let d:int = 0; let "
    \o "i:int = 0; fn init(): int { a = a + 1; return 0; } fn cond(): "
    \o "int { d = d + 1; return i < 5; } fn inc(): int { c = c + 1; i = "
    \o "i + 1; } for (i = init(); cond(); inc();) { b = b + 1; if (i == "
    \o "1) { continue; } }"

\* a top-level statement and a function body that call functions declared later
SrcForward ==
    "let a:int = f(); fn f(): int { return g() + 1; } fn g(): int { "
    \o "return 41; }"

\* two functions that call each other
SrcMutual ==
    "fn even(n:int): int { if (n == 0) return true; return odd(n - "
    \o "1); } fn odd(n:int): int { if (n == 0) return false; return "
    \o "even(n - 1); } let r:int = even(3);"

\* interpreter_test.py, test_function_call
SrcAdd ==
    "fn add(a: int, b: int): int { return a + b; } fn main(): int { "
    \o "return add(40, 2); }"

\* an entry point after a top-level statement that follows it in the source
SrcEntry ==
    "let t:int = 0; fn main(): int { t = t + 1; return t; } t = 5;"

\* an entry point that ends without return
SrcEntryNoReturn ==
    "let t:int = 0; fn main(): int { t = t + 1; } t = 5;"

\* interpreter_test.py, test_arithmetic
SrcArithmetic == "fn main(): int { return 1 + 2 * 3; }"

\* interpreter_test.py, test_if_bool
SrcIfBool ==
    "fn main(): int { if (true) { return 2; } else { return 3; } "
    \o "}"

\* interpreter_test.py, test_while_loop
SrcWhile ==
    "fn main(): int { let x: int = 3; while (x) { x = x - 1; } "
    \o "return x; }"

\* interpreter_test.py, test_unary_ops
SrcUnary ==
    "fn main(): int { let x: int = 1; x = -x; if (!false) { return x + 41; } "
    \o "return 0; }"

\* a return inside for, if, block and while of a function body
SrcReturnNested ==
    "let n:int = 0; let m:int = 0; fn f(): int { while (true) { n = "
    \o "n + 1; if (n == 2) { for (m = 0; m < 9; m = m + 1;) { if (m "
    \o "== 1) return 40 + n; } } } return 0; } let r:int = f() + "
    \o "100; let after:int = 1;"

\* a return in a for loop whose increment fails
SrcReturnIncFails ==
    "let i:int = 0; fn f(): int { for (i = 0; i < 3; zz;) { return "
    \o "1; } } let r:int = f();"

\* a callee that reads a local of its caller
SrcCallerLocalRead ==
    "fn g(): int { return v; } fn f(): int { let v:int = 1; return "
    \o "g(); } let r:int = f();"

\* a callee that assigns to a local of its caller
SrcCallerLocalAssign ==
    "fn g(): int { v = 2; return 0; } fn f(): int { let v:int = 1; "
    \o "g(); return v; } let r:int = f();"

\* a callee that declares a name its caller has as a local
SrcCallerLocalLet ==
    "fn g(): int { let v:int = 2; return v; } fn f(): int { let "
    \o "v:int = 1; let w:int = g(); return v * 10 + w; } let r:int = "
    \o "f();"

\* a let in a block, read after the block has ended
SrcBlockEnd == "{ let k:int = 1; } k;"

\* ... after the block was left by break
SrcBlockBreak == "while (true) { let k:int = 1; break; } k;"

\* ... by continue
SrcBlockContinue ==
    "let n:int = 0; while (n < 1) { n = n + 1; let k:int = 1; "
    \o "continue; } k;"

\* ... by return
SrcBlockReturn ==
    "fn f(): int { { let k:int = 1; return k; } } let r:int = f(); k;"

\* a let as the bare branch of an if, read afterwards
SrcBareIf == "if (true) let k:int = 1; let r:int = k;"

\* ... as the bare else branch
SrcBareElse ==
    "if (false) let j:int = 1; else let k:int = 2; let r:int = k;"

\* ... as the bare body of a while
SrcBareWhile ==
    "let n:int = 0; fn tick(): int { n = n + 1; return n; } while (n "
    \o "< 1) let k:int = tick(); let r:int = k;"

\* ... as the bare body of a for
SrcBareFor ==
    "let i:int = 0; for (i = 0; i < 1; i = i + 1;) let k:int = 7; "
    \o "let r:int = k;"

\* the same let in a brace block, read afterwards
SrcBracedIf == "if (true) { let k:int = 1; } let r:int = k;"

\* ... in the brace body of a while
SrcBracedWhile ==
    "let n:int = 0; fn tick(): int { n = n + 1; return n; } while (n "
    \o "< 1) { let k:int = tick(); } let r:int = k;"

\* ... in the brace body of a for
SrcBracedFor ==
    "let i:int = 0; for (i = 0; i < 1; i = i + 1;) { let k:int = 7; "
    \o "} let r:int = k;"

\* a call with too few arguments; n counts the executions of the body
SrcArity ==
    "let n:int = 0; fn add(a: int, b: int): int { n = n + 1; return "
    \o "a + b; } let r:int = add(1);"

\* an entry point that has a parameter
SrcMainParam == "fn main(a:int): int { return 1; }"

\* a call with too many arguments
SrcArityMany ==
    "let n:int = 0; fn one(a: int): int { n = n + 1; return a; } let "
    \o "r:int = one(1, 2, 3);"

\* && and || with a right operand that counts its evaluations in n
SrcShortCircuit ==
    "let n:int = 0; fn side(): int { n = n + 1; return 7; } let "
    \o "p:int = false && side(); let q:int = true || side(); let r:int "
    \o "= true && side(); let s:int = false || side(); let t:int = 3 || "
    \o "side(); let u:int = \"\" && side();"

\* ifs on null, false, 0, "", true, -1, "a" and a function: d counts the
\* evaluations of the condition, t the then-branches, e the else-branches
SrcIfTruthiness ==
    "let d:int = 0; let t:int = 0; let e:int = 0; fn c(v:int): int { "
    \o "d = d + 1; return v; } if (c(null)) t = t + 1; else e = e + 1; "
    \o "if (c(false)) t = t + 1; else e = e + 1; if (c(0)) t = t + 1; "
    \o "else e = e + 1; if (c(\"\")) t = t + 1; else e = e + 1; if "
    \o "(c(true)) t = t + 10; else e = e + 10; if (c(-1)) t = t + 10; "
    \o "else e = e + 10; if (c(\"a\")) t = t + 10; else e = e + 10; if "
    \o "(c(c)) t = t + 10; else e = e + 10; if (c(0)) t = t + 100; let "
    \o "z:int = 0;"

\* a while loop with counters: d counts the condition, b the bodies started, w
\* the bodies finished; one iteration ends by continue, the last by break
SrcWhileCounted ==
    "let n:int = 0; let d:int = 0; let b:int = 0; let w:int = 0; fn "
    \o "cond(): int { d = d + 1; return n < 9; } while (cond()) { n = n "
    \o "+ 1; b = b + 1; if (n == 2) { continue; } if (n == 4) { break; "
    \o "} w = w + 1; }"

\* the same loop, ended by its condition
SrcWhileEnd ==
    "let n:int = 0; let d:int = 0; let b:int = 0; let w:int = 0; fn "
    \o "cond(): int { d = d + 1; return n < 3; } while (cond()) { n = n "
    \o "+ 1; b = b + 1; if (n == 2) { continue; } w = w + 1; }"

\* continue and break in an inner loop: p counts past the continue, q past the
\* break
SrcWhileNested ==
    "let o:int = 0; let p:int = 0; let q:int = 0; let i:int = 0; "
    \o "while (o < 2) { o = o + 1; i = 0; while (true) { i = i + 1; if "
    \o "(i == 1) { continue; } p = p + 1; if (i == 3) { break; } q = q "
    \o "+ 1; } }"

\* an assignment without its right-hand side
SrcMissingOperand == "x = ;"

\* a for loop whose body fails in its first iteration
SrcForBodyFails == "let i:int = 0; for (i = 0; i < 3; i = i + 1;) { zz; }"

\* a parameter named as a global
SrcParamShadowsGlobal ==
    "let n:int = 5; fn f(n:int): int { return n; } let r:int = f(9);"

\* a recursive function whose parameter is named as a global
SrcRecursionShadowed ==
    "let k:int = 7; fn g(k:int): int { if (k < 1) return 0; "
    \o "let s:int = g(k - 1); return k + s; } let r:int = g(3);"

\* an if statement without else whose last token ends the source
SrcIfAtEnd == "let x:int = 0; if (x == 0) x = 1;"

Inputs ==
    { Input(SrcMissingOperand, NoEntry),
      Input(SrcIfAtEnd, NoEntry),
      Input(SrcReturnNested, NoEntry),
      Input(SrcReturnIncFails, NoEntry),
      Input(SrcCallerLocalRead, NoEntry),
      Input(SrcCallerLocalAssign, NoEntry),
      Input(SrcCallerLocalLet, NoEntry),
      Input(SrcBlockEnd, NoEntry),
      Input(SrcBlockBreak, NoEntry),
      Input(SrcBlockContinue, NoEntry),
      Input(SrcBlockReturn, NoEntry),
      Input(SrcBareIf, NoEntry),
      Input(SrcBareElse, NoEntry),
      Input(SrcBareWhile, NoEntry),
      Input(SrcBareFor, NoEntry),
      Input(SrcBracedIf, NoEntry),
      Input(SrcBracedWhile, NoEntry),
      Input(SrcBracedFor, NoEntry),
      Input(SrcArity, NoEntry),
      Input(SrcArityMany, NoEntry),
      Input(SrcShortCircuit, NoEntry),
      Input(SrcIfTruthiness, NoEntry),
      Input(SrcWhileCounted, NoEntry),
      Input(SrcWhileEnd, NoEntry),
      Input(SrcWhileNested, NoEntry),
      Input(SrcTopBreak, NoEntry),
      Input(SrcTopContinue, NoEntry),
      Input(SrcTopReturn, NoEntry),
      Input(SrcFnBreak, NoEntry),
      Input(SrcShadow, NoEntry),
      Input(SrcAssignUnbound, NoEntry),
      Input(SrcReadUnbound, NoEntry),
      Input(SrcAssignOuter, NoEntry),
      Input(SrcCalleeBreak, NoEntry),
      Input(SrcCalleeContinue, NoEntry),
      Input(SrcClosure, NoEntry),
      Input(SrcForLet, NoEntry),
      Input(SrcForBreak, NoEntry),
      Input(SrcForEnd, NoEntry),
      Input(SrcForward, NoEntry),
      Input(SrcMutual, NoEntry),
      Input(SrcAdd, "main"),
      Input(SrcEntry, "main"),
      Input(SrcEntry, "nomain"),
      Input(SrcEntry, NoEntry),
      Input(SrcEntryNoReturn, "main"),
      Input(SrcArithmetic, "main"),
      Input(SrcIfBool, "main"),
      Input(SrcWhile, "main"),
      Input(SrcUnary, "main"),
      Input("let x:int = 1; { let x:int = 2; } print(x);",
            NoEntry),
      Input("let x:int = 1; fn f(): int { let x:int = 7; return x; } let y:int = f();",
            NoEntry),
      Input("y = 1;",
            NoEntry),
      Input("fn f(): int { break; }",
            "f"),
      Input("fn g(): int { return 1; } fn mk(): int { return g; } let f:int = mk(); let a:int = f();",
            NoEntry),
      Input("let i:int = 0; for (i = 0; i < 10; i = i + 1;) { if (i == 3) { break; } }",
            NoEntry),
      Input("let i:int = 0; let n:int = 0; for (i = 0; i < 3; i = i + 1;) { if (i == 1) continue; n = n + 1; }",
            NoEntry),
      Input("let i:int = 0; fn f(): int { for (i = 0; i < 3; i = i + 1;) { return i; } } let r:int = f();",
            NoEntry),
      Input(SrcForBodyFails, NoEntry),
      Input(SrcMainParam, "main"),
      Input(SrcParamShadowsGlobal, NoEntry),
      Input(SrcRecursionShadowed, NoEntry),
      Input("let x:int = null; let y:int = !x; let z:int = -true; let w:int = 1 < 2 && 0; let v:int = 0 || \"a\"; let u:int = \"\" == \"\"; print(x, y); 5(); ",
            NoEntry),
      Input("let x:int = 7 % 3 * 2 - 10; let y:int = x >= -6; let z:int = x <= 1 != false; let q:int = 1 > 2; let s:int = \"a\" + \"b\"; let e:int = 1 % 0;",
            NoEntry),
      Input("let x:int = null + 1;",
            NoEntry),
      Input("let x:int = -null;",
            NoEntry),
      Input("fn f(): int {} let x:int = f(1);",
            NoEntry),
      Input("let x:int = 0; while (x < 5) { x = x + 1; if (x == 2) { continue; } if (x == 4) break; }",
            NoEntry),
      Input("let x:int = 0; if (x) x = 1; else x = 2; if (x == 5) x = 9; if (x) { let k:int = 1; }",
            NoEntry),
      Input("x = 5$;",
            NoEntry),
      Input("let x:int = 1; x = 2; x = (3);",
            NoEntry),
      Input("fn f(): int { return null; } let x:int = f(); let y:int = print; {} ",
            NoEntry) }

VARIABLES
    source,       \* the text given to run_code
    entrypoint,   \* the entry point name given to run_code, or NoEntry
    phase,        \* "tokenize", "parse", "hoist", "exec", "finished"
    lexer,        \* the locals of tokenize: pos, line, line_start
    tokens,       \* the token list built so far / handed to the parser
    parser,       \* the Parser's current_token_index, the activations of its
                  \* parse functions and the statements so far
    program,      \* the Program handed to Interpreter.run
    hoisted,      \* how many statements the first loop of run has visited
    functions,    \* Interpreter.functions
    envs,         \* the heap of Env objects
    ctl,          \* the call being made or the result being handed back
    stack,        \* the activations waiting for it, innermost last
    output,       \* what print has written
    outcome,      \* how run_code ended
    steps         \* interpreter steps taken

vars == <<source, entrypoint, phase, lexer, tokens, parser, program, hoisted,
          functions, envs, ctl, stack, output, outcome, steps>>

MaxSteps == 400

Running == [status |-> "running"]

Returned(val) == [status |-> "returned", value |-> val]

Raised(exc) == [status |-> "raised", exc |-> exc]

Idle == [k |-> "idle"]

Init ==
    /\ \E inp \in Inputs : source = inp.code /\ entrypoint = inp.entry
    /\ phase = "tokenize"
    /\ lexer = LexerStart
    /\ tokens = <<>>
    /\ parser = [current_token_index |-> 0, frames |-> <<>>, statements |-> <<>>]
    /\ program = Program(<<>>)
    /\ hoisted = 0
    /\ functions = <<>>
    /\ envs = <<[parent |-> NoParent,
                 values |-> Bind(<<>>, "print", VBuiltin("print"))]>>
    /\ ctl = Idle
    /\ stack = <<>>
    /\ output = <<>>
    /\ outcome = Running
    /\ steps = 0

interpVars == <<hoisted, functions, envs, ctl, stack, output, steps>>

(***************************************************************************)
(* run_code, line 110: tokenize(code), one iteration of its loop a step.   *)
(***************************************************************************)
TokenizeStep ==
    /\ phase = "tokenize"
    /\ lexer.pos < Len(source)
    /\ LET r == tokenize_iteration(source, lexer, tokens)
       IN  IF r.ok
           THEN /\ lexer' = r.lexer
                /\ tokens' = r.tokens
                /\ UNCHANGED <<phase, outcome>>
           ELSE /\ phase' = "finished"
                /\ outcome' = Raised(Exc(r.error,
                                         VStr("Unexpected character: " \o r.ch)))
                /\ UNCHANGED <<lexer, tokens>>
    /\ UNCHANGED <<source, entrypoint, parser, program>>
    /\ UNCHANGED interpVars

\* tokenize returns its list: Parser(tokens)
TokenizeReturn ==
    /\ phase = "tokenize"
    /\ lexer.pos >= Len(source)
    /\ phase' = "parse"
    /\ UNCHANGED <<source, entrypoint, lexer, tokens, parser, program, outcome>>
    /\ UNCHANGED interpVars

(***************************************************************************)
(* run_code, line 111: Parser.parse.  A step is one call of                *)
(* parse_statement, by the loop of parse or by the activation on top of    *)
(* parser.frames, up to the next such call.                                *)
(***************************************************************************)
ParseStatement ==
    /\ phase = "parse"
    /\ parser.frames # <<>> \/ parser.current_token_index < Len(tokens)
    /\ LET st == parse_statement(tokens, parser.frames, parser.current_token_index)
       IN  IF st.ok
           THEN /\ parser' = [current_token_index |-> st.pos,
                              frames |-> st.frames,
                              statements |-> parser.statements \o st.returned]
                /\ UNCHANGED <<phase, outcome>>
           ELSE /\ parser' = [parser EXCEPT !.current_token_index = st.pos]
                /\ phase' = "finished"
                /\ outcome' = Raised(Exc(st.error, VStr(st.msg)))
    /\ UNCHANGED <<source, entrypoint, lexer, tokens, program>>
    /\ UNCHANGED interpVars

\* parse returns Program(statements): self.run(program, entrypoint)
ParseReturn ==
    /\ phase = "parse"
    /\ parser.frames = <<>>
    /\ parser.current_token_index >= Len(tokens)
    /\ program' = Program(parser.statements)
    /\ phase' = "hoist"
    /\ UNCHANGED <<source, entrypoint, lexer, tokens, parser, outcome>>
    /\ UNCHANGED interpVars

(***************************************************************************)
(* Interpreter.run and what it calls.  ctl is one of                       *)
(*   Exec(node, env)   exec_stmt(node, env) is being called                *)
(*   Eval(node, env)   eval_expr(node, env) is being called                *)
(*   Value(v)          eval_expr or Function.call returns v                *)
(*   Done              exec_stmt or exec_block returns                     *)
(*   Raising(exc)      an exception is propagating                         *)
(* and each frame of stack is an activation that waits for it.             *)
(***************************************************************************)
Exec(node, env) == [k |-> "exec", node |-> node, env |-> env]

Eval(node, env) == [k |-> "eval", node |-> node, env |-> env]

Value(val) == [k |-> "value", v |-> val]

Done == [k |-> "done"]

Raising(exc) == [k |-> "raise", exc |-> exc]

Top == stack[Len(stack)]

Pop == SubSeq(stack, 1, Len(stack) - 1)

\* run's second loop, having reached statement i, or waiting for the entry call
RunFrame(at, i) == [k |-> "run", at |-> at, i |-> i]

\* exec_block's loop over statements, having reached statement i, in block_env
BlockFrame(statements, env) ==
    [k |-> "exec_block", statements |-> statements, i |-> 0, env |-> env]

\* an exec_stmt or eval_expr activation of node in env, at a place in its code
NodeFrame(node, env, at) == [k |-> node.k, node |-> node, env |-> env, at |-> at]

CallFrame(fn) == [k |-> "call", fn |-> fn.name]

\* an exec_block that runs the statements in env itself
exec_block_flat(node, env, heap) ==
    [ctl |-> Done,
     frames |-> <<BlockFrame(node.items, env)>>,
     heap |-> heap,
     out |-> output]

\* exec_block(statements, env): Env(parent=env), then the loop
exec_block(node, env, heap) ==
    [ctl |-> Done,
     frames |-> <<BlockFrame(node.items, Len(heap) + 1)>>,
     heap |-> Append(heap, Env(env)),
     out |-> output]

\* a body that always gets a scope of its own
ExecBodyScoped(node, env, heap) ==
    exec_block(IF node.k = "list" THEN node ELSE StmtList(<<node>>), env, heap)

\* "if isinstance(body, list): exec_block(body, env) else: exec_stmt(body, env)"
ExecBody(node, env, heap) ==
    IF node.k = "list" THEN exec_block(node, env, heap)
    ELSE [ctl |-> Exec(node, env), frames |-> <<>>, heap |-> heap, out |-> output]

RECURSIVE BindParams(_, _, _, _, _)
\* for (p_name, _p_type), arg in zip(params, args): local.set(p_name.value, arg)
BindParams(heap, local, params, args, i) ==
    IF i > Len(params) THEN heap
    ELSE BindParams(Env_set(heap, local, params[i][1].value, args[i]),
                    local, params, args, i + 1)

\* f"Function {self.name} expected {len(self.params)} args, got {len(args)}"
ArityMessage(fn, args) ==
    "Function " \o fn.name \o " expected " \o ToString(Len(fn.params))
    \o " args, got " \o ToString(Len(args))

\* a call without the arity check: zip binds the parameters that have arguments
Function_call_unchecked(fn, args, heap) ==
    LET local == Len(heap) + 1
        count == IF Len(args) < Len(fn.params) THEN Len(args) ELSE Len(fn.params)
        bound == BindParams(Append(heap, Env(fn.closure)), local,
                            SubSeq(fn.params, 1, count), args, 1)
        blk == exec_block(fn.body, local, bound)
    IN  [ctl |-> blk.ctl, frames |-> <<CallFrame(fn)>> \o blk.frames,
         heap |-> blk.heap, out |-> output]

\* a call whose local Env is parented at the scope of the call expression
Function_call_dynamic(fn, args, heap) ==
    IF Len(args) # Len(fn.params)
    THEN [ctl |-> Raising(RuntimeError(ArityMessage(fn, args))),
          frames |-> <<>>, heap |-> heap, out |-> output]
    ELSE LET local == Len(heap) + 1
             caller == IF "env" \in DOMAIN Top THEN Top.env ELSE fn.closure
             bound == BindParams(Append(heap, Env(caller)), local,
                                 fn.params, args, 1)
             blk == exec_block(fn.body, local, bound)
         IN  [ctl |-> blk.ctl, frames |-> <<CallFrame(fn)>> \o blk.frames,
              heap |-> blk.heap, out |-> output]

\* Function.call up to its try: the arity check, the local Env, the parameters,
\* and the entry into exec_block(self.body, local)
Function_call(fn, args, heap) ==
    IF Len(args) # Len(fn.params)
    THEN [ctl |-> Raising(RuntimeError(ArityMessage(fn, args))),
          frames |-> <<>>, heap |-> heap, out |-> output]
    ELSE LET local == Len(heap) + 1
             bound == BindParams(Append(heap, Env(fn.closure)), local,
                                 fn.params, args, 1)
             blk == exec_block(fn.body, local, bound)
         IN  [ctl |-> blk.ctl, frames |-> <<CallFrame(fn)>> \o blk.frames,
              heap |-> blk.heap, out |-> output]

\* the end of eval_expr for a CallExpr, callee and arguments evaluated
Invoke(callee_val, args, heap) ==
    CASE callee_val.t = "Function" -> Function_call(callee_val.v, args, heap)
      [] callee_val.t = "builtin" ->
            [ctl |-> Value(VNone), frames |-> <<>>, heap |-> heap,
             out |-> Append(output, args)]
      [] OTHER ->
            [ctl |-> Raising(RuntimeError("Attempted to call a non-callable value")),
             frames |-> <<>>, heap |-> heap, out |-> output]

frontVars == <<source, entrypoint, lexer, tokens, parser, program>>

\* one step of the interpreter that leaves run running
Step(c, s, h, o) ==
    /\ ctl' = c
    /\ stack' = s
    /\ envs' = h
    /\ output' = o
    /\ steps' = steps + 1
    /\ UNCHANGED <<phase, hoisted, functions, outcome>>
    /\ UNCHANGED frontVars

\* a step that replaces the top frame by those of r
Enter(below, r) == Step(r.ctl, below \o r.frames, r.heap, r.out)

Executing(kind) == phase = "exec" /\ steps < MaxSteps /\ ctl.k = kind

(***************************************************************************)
(* run, lines 116-125: the first pass, one statement a step.               *)
(***************************************************************************)
\* a first pass that registers nothing
HoistNothing ==
    /\ phase = "hoist"
    /\ hoisted < Len(program.statements)
    /\ hoisted' = hoisted + 1
    /\ UNCHANGED <<functions, envs>>
    /\ UNCHANGED <<phase, ctl, stack, output, outcome, steps>>
    /\ UNCHANGED frontVars

HoistStatement ==
    /\ phase = "hoist"
    /\ hoisted < Len(program.statements)
    /\ LET stmt == program.statements[hoisted + 1]
           fn == Function(stmt.func_name.value, stmt.params, stmt.body, Globals)
       IN  IF stmt.k = "FuncDecl"
           THEN /\ functions' = Bind(functions, fn.name, fn)
                /\ envs' = Env_set(envs, Globals, fn.name, VFunction(fn))
           ELSE UNCHANGED <<functions, envs>>
    /\ hoisted' = hoisted + 1
    /\ UNCHANGED <<phase, ctl, stack, output, outcome, steps>>
    /\ UNCHANGED frontVars

HoistDone ==
    /\ phase = "hoist"
    /\ hoisted = Len(program.statements)
    /\ phase' = "exec"
    /\ stack' = <<RunFrame("statements", 0)>>
    /\ ctl' = Done
    /\ UNCHANGED <<hoisted, functions, envs, output, outcome, steps>>
    /\ UNCHANGED frontVars

\* the statements after i that the second loop executes
Pending(i) ==
    {j \in (i + 1)..Len(program.statements) : program.statements[j].k # "FuncDecl"}

Min(S) == CHOOSE x \in S : \A y \in S : x <= y

\* run, lines 128-130: the next top-level statement that is no FuncDecl
RunStatement ==
    /\ Executing("done")
    /\ Top.k = "run" /\ Top.at = "statements"
    /\ Pending(Top.i) # {}
    /\ LET j == Min(Pending(Top.i))
       IN  Step(Exec(program.statements[j], Globals),
                <<RunFrame("statements", j)>>, envs, output)

\* run, lines 133-134: the entry point is called with no arguments
RunEntrypoint ==
    /\ Executing("done")
    /\ Top.k = "run" /\ Top.at = "statements"
    /\ Pending(Top.i) = {}
    /\ entrypoint # NoEntry /\ entrypoint \in DOMAIN functions
    /\ Enter(<<RunFrame("entrypoint", Top.i)>>,
             Function_call(functions[entrypoint], <<>>, envs))

Finish(result) ==
    /\ outcome' = result
    /\ phase' = "finished"
    /\ ctl' = Idle
    /\ stack' = <<>>
    /\ steps' = steps + 1
    /\ UNCHANGED <<hoisted, functions, envs, output>>
    /\ UNCHANGED frontVars

\* run, line 135: return None
RunReturnNone ==
    /\ Executing("done")
    /\ Top.k = "run" /\ Top.at = "statements"
    /\ Pending(Top.i) = {}
    /\ ~(entrypoint # NoEntry /\ entrypoint \in DOMAIN functions)
    /\ Finish(Returned(VNone))

\* a run that drops the value of the entry call
RunReturnEntryDropped ==
    /\ Executing("value")
    /\ Top.k = "run"
    /\ Finish(Returned(VNone))

\* run, line 134: return the value of the entry call
RunReturnEntry ==
    /\ Executing("value")
    /\ Top.k = "run"
    /\ Finish(Returned(ctl.v))

\* an exception leaves run: nothing in run catches any
RunRaise ==
    /\ Executing("raise")
    /\ Top.k = "run"
    /\ Finish(Raised(ctl.exc))

(***************************************************************************)
(* exec_block, lines 138-142                                               *)
(***************************************************************************)
BlockNext ==
    /\ Executing("done")
    /\ Top.k = "exec_block"
    /\ IF Top.i < Len(Top.statements)
       THEN Step(Exec(Top.statements[Top.i + 1], Top.env),
                 Append(Pop, [Top EXCEPT !.i = @ + 1]), envs, output)
       ELSE Step(Done, Pop, envs, output)

(***************************************************************************)
(* Function.call, lines 55-59                                              *)
(***************************************************************************)
\* a call that loses the value of its return
CallReturnNone ==
    /\ Executing("raise")
    /\ Top.k = "call"
    /\ ctl.exc.type = "ReturnSignal"
    /\ Step(Value(VNone), Pop, envs, output)

\* except ReturnSignal as rs: return rs.value
CallReturn ==
    /\ Executing("raise")
    /\ Top.k = "call"
    /\ ctl.exc.type = "ReturnSignal"
    /\ Step(Value(ctl.exc.value), Pop, envs, output)

\* the body ended without return: return None
CallBodyDone ==
    /\ Executing("done")
    /\ Top.k = "call"
    /\ Step(Value(VNone), Pop, envs, output)

\* any other exception leaves Function.call
CallPropagate ==
    /\ Executing("raise")
    /\ Top.k = "call"
    /\ ctl.exc.type # "ReturnSignal"
    /\ Step(ctl, Pop, envs, output)

(***************************************************************************)
(* exec_stmt, lines 144-223                                                *)
(***************************************************************************)
ExecVarDecl ==
    /\ Executing("exec")
    /\ ctl.node.k = "VarDecl"
    /\ Step(Eval(ctl.node.init_value, ctl.env),
            Append(stack, NodeFrame(ctl.node, ctl.env, "init_value")),
            envs, output)

\* env.set(name, value)
ContVarDecl ==
    /\ Executing("value")
    /\ Top.k = "VarDecl"
    /\ Step(Done, Pop, Env_set(envs, Top.env, Top.node.var_name.value, ctl.v),
            output)

ExecAssignStmt ==
    /\ Executing("exec")
    /\ ctl.node.k = "AssignStmt"
    /\ Step(Eval(ctl.node.value, ctl.env),
            Append(stack, NodeFrame(ctl.node, ctl.env, "value")), envs, output)

\* env.assign(name, value)
ContAssignStmt ==
    /\ Executing("value")
    /\ Top.k = "AssignStmt"
    /\ LET r == Env_assign(envs, Top.env, Top.node.var_name.value, ctl.v)
       IN  IF r.ok THEN Step(Done, Pop, r.v, output)
           ELSE Step(Raising(r.exc), Pop, envs, output)

ExecIfStmt ==
    /\ Executing("exec")
    /\ ctl.node.k = "IfStmt"
    /\ Step(Eval(ctl.node.condition, ctl.env),
            Append(stack, NodeFrame(ctl.node, ctl.env, "condition")),
            envs, output)

ContIfStmt ==
    /\ Executing("value")
    /\ Top.k = "IfStmt"
    /\ IF truthy(ctl.v)
       THEN Enter(Pop, ExecBody(Top.node.then_branch, Top.env, envs))
       ELSE IF Top.node.else_branch.k # "None"
       THEN Enter(Pop, ExecBody(Top.node.else_branch, Top.env, envs))
       ELSE Step(Done, Pop, envs, output)

ExecWhileStmt ==
    /\ Executing("exec")
    /\ ctl.node.k = "WhileStmt"
    /\ Step(Eval(ctl.node.condition, ctl.env),
            Append(stack, NodeFrame(ctl.node, ctl.env, "condition")),
            envs, output)

ContWhileCondition ==
    /\ Executing("value")
    /\ Top.k = "WhileStmt"
    /\ IF truthy(ctl.v)
       THEN Enter(Append(Pop, [Top EXCEPT !.at = "body"]),
                  ExecBody(Top.node.body, Top.env, envs))
       ELSE Step(Done, Pop, envs, output)

WhileBodyDone ==
    /\ Executing("done")
    /\ Top.k = "WhileStmt"
    /\ Step(Eval(Top.node.condition, Top.env),
            Append(Pop, [Top EXCEPT !.at = "condition"]), envs, output)

\* a while loop that handles break as it handles continue
WhileCatchContinues ==
    /\ Executing("raise")
    /\ Top.k = "WhileStmt" /\ Top.at = "body"
    /\ ctl.exc.type \in {"ContinueSignal", "BreakSignal"}
    /\ Step(Eval(Top.node.condition, Top.env),
            Append(Pop, [Top EXCEPT !.at = "condition"]), envs, output)

\* except ContinueSignal: continue / except BreakSignal: break
WhileCatch ==
    /\ Executing("raise")
    /\ Top.k = "WhileStmt" /\ Top.at = "body"
    /\ ctl.exc.type \in {"ContinueSignal", "BreakSignal"}
    /\ IF ctl.exc.type = "ContinueSignal"
       THEN Step(Eval(Top.node.condition, Top.env),
                 Append(Pop, [Top EXCEPT !.at = "condition"]), envs, output)
       ELSE Step(Done, Pop, envs, output)

ForFrame(node, env, at, pending) ==
    [k |-> "ForStmt", node |-> node, env |-> env, at |-> at, pending |-> pending]

ExecForStmt ==
    /\ Executing("exec")
    /\ ctl.node.k = "ForStmt"
    /\ Step(Exec(ctl.node.init, ctl.env),
            Append(stack, ForFrame(ctl.node, ctl.env, "init", [k |-> "loop"])),
            envs, output)

ForInitDone ==
    /\ Executing("done")
    /\ Top.k = "ForStmt" /\ Top.at = "init"
    /\ Step(Eval(Top.node.condition, Top.env),
            Append(Pop, [Top EXCEPT !.at = "condition"]), envs, output)

ContForCondition ==
    /\ Executing("value")
    /\ Top.k = "ForStmt"
    /\ IF truthy(ctl.v)
       THEN Enter(Append(Pop, [Top EXCEPT !.at = "body"]),
                  ExecBody(Top.node.body, Top.env, envs))
       ELSE Step(Done, Pop, envs, output)

\* what the try statement of the for loop does once its finally clause is over,
\* the body having ended as `how`: the next iteration (the body returned, or
\* "except ContinueSignal: pass"), "except BreakSignal: break", or the exception
\* goes on propagating
AfterBody(how) ==
    CASE how.k = "done" -> [k |-> "loop"]
      [] how.exc.type = "ContinueSignal" -> [k |-> "loop"]
      [] how.exc.type = "BreakSignal" -> [k |-> "break"]
      [] OTHER -> how

\* a for loop whose increment is no finally clause: break leaves at once
ForNoFinally ==
    /\ phase = "exec" /\ steps < MaxSteps
    /\ ctl.k \in {"done", "raise"}
    /\ Top.k = "ForStmt" /\ Top.at = "body"
    /\ IF ctl.k = "raise" /\ ctl.exc.type = "BreakSignal"
       THEN Step(Done, Pop, envs, output)
       ELSE Step(Exec(Top.node.increment, Top.env),
                 Append(Pop, [Top EXCEPT !.at = "increment",
                                         !.pending = AfterBody(ctl)]),
                 envs, output)

\* a for loop whose increment ends the try block instead of being its finally
\* clause: a return or an error of the body leaves the loop at once
ForIncrementInTry ==
    /\ phase = "exec" /\ steps < MaxSteps
    /\ ctl.k \in {"done", "raise"}
    /\ Top.k = "ForStmt" /\ Top.at = "body"
    /\ IF ctl.k = "raise"
          /\ ctl.exc.type \notin {"BreakSignal", "ContinueSignal"}
       THEN Step(ctl, Pop, envs, output)
       ELSE Step(Exec(Top.node.increment, Top.env),
                 Append(Pop, [Top EXCEPT !.at = "increment",
                                         !.pending = AfterBody(ctl)]),
                 envs, output)

\* the body is over, normally or not: finally: self.exec_stmt(node.increment, env)
ForFinally ==
    /\ phase = "exec" /\ steps < MaxSteps
    /\ ctl.k \in {"done", "raise"}
    /\ Top.k = "ForStmt" /\ Top.at = "body"
    /\ Step(Exec(Top.node.increment, Top.env),
            Append(Pop, [Top EXCEPT !.at = "increment", !.pending = AfterBody(ctl)]),
            envs, output)

\* the finally clause is over
ForIncrementDone ==
    /\ Executing("done")
    /\ Top.k = "ForStmt" /\ Top.at = "increment"
    /\ CASE Top.pending.k = "loop" ->
              Step(Eval(Top.node.condition, Top.env),
                   Append(Pop, [Top EXCEPT !.at = "condition"]), envs, output)
         [] Top.pending.k = "break" -> Step(Done, Pop, envs, output)
         [] OTHER -> Step(Top.pending, Pop, envs, output)

ExecReturnStmt ==
    /\ Executing("exec")
    /\ ctl.node.k = "ReturnStmt"
    /\ Step(Eval(ctl.node.value, ctl.env),
            Append(stack, NodeFrame(ctl.node, ctl.env, "value")), envs, output)

\* raise ReturnSignal(val)
ContReturnStmt ==
    /\ Executing("value")
    /\ Top.k = "ReturnStmt"
    /\ Step(Raising(ReturnSignal(ctl.v)), Pop, envs, output)

ExecBreakStmt ==
    /\ Executing("exec")
    /\ ctl.node.k = "BreakStmt"
    /\ Step(Raising(BreakSignal), stack, envs, output)

ExecContinueStmt ==
    /\ Executing("exec")
    /\ ctl.node.k = "ContinueStmt"
    /\ Step(Raising(ContinueSignal), stack, envs, output)

\* an expression statement: evaluate and discard
ExecExprStmt ==
    /\ Executing("exec")
    /\ IsExpr(ctl.node)
    /\ Step(Eval(ctl.node, ctl.env),
            Append(stack, [k |-> "ExprStmt"]), envs, output)

ContExprStmt ==
    /\ Executing("value")
    /\ Top.k = "ExprStmt"
    /\ Step(Done, Pop, envs, output)

\* "Treat raw block list as a block"
ExecList ==
    /\ Executing("exec")
    /\ ctl.node.k = "list"
    /\ Enter(stack, exec_block(ctl.node, ctl.env, envs))

Handled ==
    {"VarDecl", "AssignStmt", "IfStmt", "WhileStmt", "ForStmt", "ReturnStmt",
     "BreakStmt", "ContinueStmt", "list"}

\* raise RuntimeError("Unsupported statement node"): no branch takes a FuncDecl
ExecUnsupported ==
    /\ Executing("exec")
    /\ ctl.node.k \notin Handled /\ ~IsExpr(ctl.node)
    /\ Step(Raising(RuntimeError("Unsupported statement node")), stack, envs,
            output)

(***************************************************************************)
(* eval_expr, lines 225-297                                                *)
(***************************************************************************)
EvalToken ==
    /\ Executing("eval")
    /\ ctl.node.k = "Token"
    /\ Step(Value(literal_from_token(ctl.node.tok)), stack, envs, output)

EvalLiteral ==
    /\ Executing("eval")
    /\ ctl.node.k = "Literal"
    /\ Step(Value(literal_from_token(ctl.node.value)), stack, envs, output)

EvalIdentifier ==
    /\ Executing("eval")
    /\ ctl.node.k = "Identifier"
    /\ LET r == Env_get(envs, ctl.env, ctl.node.name.value)
       IN  Step(IF r.ok THEN Value(r.v) ELSE Raising(r.exc), stack, envs, output)

EvalUnaryExpr ==
    /\ Executing("eval")
    /\ ctl.node.k = "UnaryExpr"
    /\ Step(Eval(ctl.node.operand, ctl.env),
            Append(stack, NodeFrame(ctl.node, ctl.env, "operand")), envs, output)

ContUnaryExpr ==
    /\ Executing("value")
    /\ Top.k = "UnaryExpr"
    /\ LET op == Top.node.operator.value
           r == CASE op = "!" -> Good(VBool(~truthy(ctl.v)))
                  [] op = "-" -> Negate(ctl.v)
                  [] OTHER -> Bad(RuntimeError("Unsupported unary operator"))
       IN  Step(IF r.ok THEN Value(r.v) ELSE Raising(r.exc), Pop, envs, output)

BinaryFrame(node, env, at, left) ==
    [k |-> "BinaryExpr", node |-> node, env |-> env, at |-> at, left |-> left]

EvalBinaryExpr ==
    /\ Executing("eval")
    /\ ctl.node.k = "BinaryExpr"
    /\ Step(Eval(ctl.node.left, ctl.env),
            Append(stack, BinaryFrame(ctl.node, ctl.env, "left", VNone)),
            envs, output)

\* a binary expression that evaluates its right operand whatever the left is
ContBinaryLeftEager ==
    /\ Executing("value")
    /\ Top.k = "BinaryExpr" /\ Top.at = "left"
    /\ Step(Eval(Top.node.right, Top.env),
            Append(Pop, [Top EXCEPT !.at = "right", !.left = ctl.v]),
            envs, output)

\* left is evaluated: the short circuits of && and ||, else the right operand
ContBinaryLeft ==
    /\ Executing("value")
    /\ Top.k = "BinaryExpr" /\ Top.at = "left"
    /\ LET op == Top.node.operator.value
       IN  CASE op = "&&" /\ ~truthy(ctl.v) ->
                  Step(Value(VBool(FALSE)), Pop, envs, output)
             [] op = "||" /\ truthy(ctl.v) ->
                  Step(Value(VBool(TRUE)), Pop, envs, output)
             [] OTHER ->
                  Step(Eval(Top.node.right, Top.env),
                       Append(Pop, [Top EXCEPT !.at = "right", !.left = ctl.v]),
                       envs, output)

ContBinaryRight ==
    /\ Executing("value")
    /\ Top.k = "BinaryExpr" /\ Top.at = "right"
    /\ LET op == Top.node.operator.value
           r == IF op \in {"&&", "||"} THEN Good(VBool(truthy(ctl.v)))
                ELSE BinaryOp(op, Top.left, ctl.v)
       IN  Step(IF r.ok THEN Value(r.v) ELSE Raising(r.exc), Pop, envs, output)

CallExprFrame(node, env, at, callee_val, args) ==
    [k |-> "CallExpr", node |-> node, env |-> env, at |-> at,
     callee_val |-> callee_val, args |-> args]

EvalCallExpr ==
    /\ Executing("eval")
    /\ ctl.node.k = "CallExpr"
    /\ Step(Eval(ctl.node.callee, ctl.env),
            Append(stack, CallExprFrame(ctl.node, ctl.env, "callee", VNone, <<>>)),
            envs, output)

\* callee_val is evaluated: the first argument, or the call when there is none
ContCallee ==
    /\ Executing("value")
    /\ Top.k = "CallExpr" /\ Top.at = "callee"
    /\ IF Len(Top.node.args) = 0
       THEN Enter(Pop, Invoke(ctl.v, <<>>, envs))
       ELSE Step(Eval(Top.node.args[1], Top.env),
                 Append(Pop, [Top EXCEPT !.at = "args", !.callee_val = ctl.v]),
                 envs, output)

\* an argument is evaluated: the next argument, or the call after the last
ContArg ==
    /\ Executing("value")
    /\ Top.k = "CallExpr" /\ Top.at = "args"
    /\ LET args == Append(Top.args, ctl.v)
       IN  IF Len(args) = Len(Top.node.args)
           THEN Enter(Pop, Invoke(Top.callee_val, args, envs))
           ELSE Step(Eval(Top.node.args[Len(args) + 1], Top.env),
                     Append(Pop, [Top EXCEPT !.args = args]), envs, output)

\* an exception passes through an activation that has no handler for it
Unwind ==
    /\ Executing("raise")
    /\ Top.k \notin {"run", "call"}
    /\ ~(Top.k = "WhileStmt" /\ Top.at = "body"
         /\ ctl.exc.type \in {"ContinueSignal", "BreakSignal"})
    /\ ~(Top.k = "ForStmt" /\ Top.at = "body")
    /\ Step(ctl, Pop, envs, output)

Next ==
    \/ TokenizeStep
    \/ TokenizeReturn
    \/ ParseStatement
    \/ ParseReturn
    \/ HoistStatement
    \/ HoistDone
    \/ RunStatement
    \/ RunEntrypoint
    \/ RunReturnNone
    \/ RunReturnEntry
    \/ RunRaise
    \/ BlockNext
    \/ CallReturn
    \/ CallBodyDone
    \/ CallPropagate
    \/ ExecVarDecl
    \/ ContVarDecl
    \/ ExecAssignStmt
    \/ ContAssignStmt
    \/ ExecIfStmt
    \/ ContIfStmt
    \/ ExecWhileStmt
    \/ ContWhileCondition
    \/ WhileBodyDone
    \/ WhileCatch
    \/ ExecForStmt
    \/ ForInitDone
    \/ ContForCondition
    \/ ForFinally
    \/ ForIncrementDone
    \/ ExecReturnStmt
    \/ ContReturnStmt
    \/ ExecBreakStmt
    \/ ExecContinueStmt
    \/ ExecExprStmt
    \/ ContExprStmt
    \/ ExecList
    \/ ExecUnsupported
    \/ EvalToken
    \/ EvalLiteral
    \/ EvalIdentifier
    \/ EvalUnaryExpr
    \/ ContUnaryExpr
    \/ EvalBinaryExpr
    \/ ContBinaryLeft
    \/ ContBinaryRight
    \/ EvalCallExpr
    \/ ContCallee
    \/ ContArg
    \/ Unwind

Spec == Init /\ [][Next]_vars

(***************************************************************************)
(* What the properties below read from a state.                            *)
(***************************************************************************)
\* run_code has ended on the input (code, entry)
Ended(code, entry) ==
    source = code /\ entrypoint = entry /\ phase = "finished"

\* the global scope binds name to the integer n
GlobalIs(name, n) ==
    /\ name \in DOMAIN envs[Globals].values
    /\ envs[Globals].values[name] = VInt(n)

\* the value of the global name, for a name the global scope binds to a number
GlobalInt(name) == envs[Globals].values[name].v

RECURSIVE Chain(_, _)
\* the scopes from e outward
Chain(heap, e) ==
    IF heap[e].parent = NoParent THEN <<e>>
    ELSE <<e>> \o Chain(heap, heap[e].parent)

\* the scopes of the chain of e that bind name
Binders(heap, e, name) ==
    {i \in DOMAIN Chain(heap, e) : name \in DOMAIN heap[Chain(heap, e)[i]].values}

\* the nearest of them
Nearest(heap, e, name) == Chain(heap, e)[Min(Binders(heap, e, name))]

\* env.set / env.assign is about to be called by a `let` / an assignment
AtVarDecl == Executing("value") /\ Top.k = "VarDecl"

AtAssign == Executing("value") /\ Top.k = "AssignStmt"

\* an assignment to a name that no scope / some scope of the chain binds
AssignUnbound ==
    AtAssign /\ Binders(envs, Top.env, Top.node.var_name.value) = {}

AssignBound ==
    AtAssign /\ Binders(envs, Top.env, Top.node.var_name.value) # {}

\* a read of a name that no scope of the chain binds
ReadUnbound ==
    /\ Executing("eval") /\ ctl.node.k = "Identifier"
    /\ Binders(envs, ctl.env, ctl.node.name.value) = {}

\* the frames of the function body (or top level) that is executing
Innermost ==
    {i \in DOMAIN stack : \A j \in i..Len(stack) : stack[j].k # "call"}

\* a loop of that body is running the iteration that contains the current
\* statement
InLoop ==
    \E i \in Innermost :
        stack[i].k \in {"WhileStmt", "ForStmt"} /\ stack[i].at = "body"

\* a break or continue is propagating
LoopSignal ==
    phase = "exec" /\ ctl.k = "raise"
    /\ ctl.exc.type \in {"BreakSignal", "ContinueSignal"}

\* ... with no loop around its statement in the same function body
Orphan == LoopSignal /\ ~InLoop

\* the names of the top-level function declarations
Declared ==
    {program.statements[j].func_name.value :
        j \in {n \in DOMAIN program.statements :
                   program.statements[n].k = "FuncDecl"}}

\* entry names a hoisted function
ValidEntry == entrypoint # NoEntry /\ entrypoint \in DOMAIN functions

\* the counters a, b, c, d and the loop variable i of SrcForBreak and SrcForEnd
Counted ==
    /\ source \in {SrcForBreak, SrcForEnd}
    /\ phase \in {"exec", "finished"}
    /\ {"a", "b", "c", "d", "i"} \subseteq DOMAIN envs[Globals].values

\* a for loop's body has just ended, normally or by an exception
ForBodyOver ==
    /\ phase = "exec" /\ steps < MaxSteps
    /\ ctl.k \in {"done", "raise"}
    /\ Top.k = "ForStmt" /\ Top.at = "body"

(***************************************************************************)
(* C1.  A call to run returns a value or fails with a genuine error: no    *)
(* return, break or continue signal propagates out of run.                 *)
(***************************************************************************)
NoSignalEscapesRun ==
    outcome.status = "raised" => outcome.exc.type \notin Signals

(***************************************************************************)
(* C2.  Executing `let x` in a scope S binds x in S itself and leaves      *)
(* every other scope as it was, so an outer binding of x keeps its value   *)
(* and is what a read sees once S is discarded.                            *)
(***************************************************************************)
LetBindsInCurrentScope ==
    [][AtVarDecl =>
          /\ envs' = Store(envs, Top.env, Top.node.var_name.value, ctl.v)
          /\ ctl' = Done]_vars

AssignChangesNearestOnly ==
    [][AssignBound =>
          LET x == Top.node.var_name.value
              n == Nearest(envs, Top.env, x)
          IN  /\ ctl' = Done
              /\ DOMAIN envs' = DOMAIN envs
              /\ \A e \in DOMAIN envs :
                    /\ envs'[e].parent = envs[e].parent
                    /\ DOMAIN envs'[e].values = DOMAIN envs[e].values
                    /\ \A y \in DOMAIN envs[e].values :
                          envs'[e].values[y] =
                              IF e = n /\ y = x THEN ctl.v
                              ELSE envs[e].values[y]]_vars

\* SrcAssignOuter has run: the block assigned 3 to the global x and 4 to its
\* own y
AssignedOuter ==
    /\ Ended(SrcAssignOuter, NoEntry)
    /\ outcome.status = "returned"
    /\ GlobalIs("x", 3) /\ GlobalIs("z", 3)
    /\ "y" \notin DOMAIN envs[Globals].values
    /\ \E e \in DOMAIN envs :
          /\ envs[e].parent = Globals
          /\ DOMAIN envs[e].values = {"y"}
          /\ envs[e].values["y"] = VInt(4)

(***************************************************************************)
(* C5.  A break or continue with no loop around it in the same function    *)
(* body is fatal: from then on an exception propagates that no loop        *)
(* intercepts, until the run fails.  A loop of the caller is neither       *)
(* exited nor continued by it.                                             *)
(***************************************************************************)
OrphanSignalIsFatal ==
    [][Orphan =>
          \/ outcome'.status = "raised"
          \/ /\ phase' = "exec" /\ ctl'.k = "raise"
             /\ ~(LoopSignal' /\ InLoop')]_vars

(***************************************************************************)
(* C6.  A function returned from the function that declares it keeps the   *)
(* locals of that function: the two calls of SrcClosure count 1 and 2 on   *)
(* the shared captured c.                                                  *)
(***************************************************************************)
ClosureKeepsLocals ==
    Ended(SrcClosure, NoEntry) =>
        /\ outcome.status = "returned"
        /\ GlobalIs("a", 1)
        /\ GlobalIs("b", 2)

(***************************************************************************)
(* C7.  The for loop with a `let` init clause and an increment clause      *)
(* without `;` is accepted, runs, and leaves i equal to 4.                 *)
(***************************************************************************)
ForLetLeavesFour ==
    Ended(SrcForLet, NoEntry) =>
        /\ outcome.status = "returned"
        /\ \E e \in DOMAIN envs :
              /\ "i" \in DOMAIN envs[e].values
              /\ envs[e].values["i"] = VInt(4)

\* the counted loops: init has run at most once, the increments are the bodies
\* started, or one behind while a body runs; at the end a = 1 and c = b, with
\* d = b after break (i = 4, one past the break) and d = b + 1 when the
\* condition ended the loop
ForCounts ==
    Counted =>
        /\ GlobalInt("a") <= 1
        /\ GlobalInt("c") <= GlobalInt("b")
        /\ GlobalInt("b") <= GlobalInt("c") + 1
        /\ GlobalInt("d") <= GlobalInt("b") + 1
        /\ phase = "finished" =>
              /\ outcome.status = "returned"
              /\ GlobalInt("a") = 1
              /\ GlobalInt("c") = GlobalInt("b")
              /\ source = SrcForBreak =>
                    /\ GlobalInt("b") = 4
                    /\ GlobalInt("d") = 4
                    /\ GlobalInt("i") = 4
              /\ source = SrcForEnd =>
                    /\ GlobalInt("b") = 5
                    /\ GlobalInt("d") = 6
                    /\ GlobalInt("i") = 5

\* in every for loop: the step after the body is the increment
ForIncrementFollowsBody ==
    [][ForBodyOver => ctl' = Exec(Top.node.increment, Top.env)]_vars

FunctionsHoisted ==
    /\ phase = "exec" =>
          \A name \in Declared :
              /\ name \in DOMAIN functions
              /\ functions[name].name = name
              /\ functions[name].closure = Globals
              /\ name \in DOMAIN envs[Globals].values
              /\ steps = 0 =>
                    envs[Globals].values[name] = VFunction(functions[name])
    /\ Ended(SrcForward, NoEntry) =>
          outcome.status = "returned" /\ GlobalIs("a", 42)
    /\ Ended(SrcMutual, NoEntry) =>
          /\ outcome.status = "returned"
          /\ "r" \in DOMAIN envs[Globals].values
          /\ envs[Globals].values["r"] = VBool(FALSE)

\* SrcForward has run: its first statement called f, declared after it, which
\* called g, declared after f
ForwardCalled ==
    /\ Ended(SrcForward, NoEntry)
    /\ Declared = {"f", "g"}
    /\ GlobalIs("a", 42)

\* without a valid entry run returns None; the entry call is made once no
\* top-level statement is left to execute; the results of the entry programs
EntryResult ==
    /\ (outcome.status = "returned" /\ ~ValidEntry) => outcome.value = VNone
    /\ (phase = "exec" /\ stack # <<>> /\ stack[1].at = "entrypoint") =>
          /\ ValidEntry
          /\ Pending(stack[1].i) = {}
    /\ Ended(SrcAdd, "main") => outcome = Returned(VInt(42))
    /\ Ended(SrcEntry, "main") =>
          outcome = Returned(VInt(6)) /\ GlobalIs("t", 6)
    /\ Ended(SrcEntry, "nomain") =>
          outcome = Returned(VNone) /\ GlobalIs("t", 5)
    /\ Ended(SrcEntry, NoEntry) =>
          outcome = Returned(VNone) /\ GlobalIs("t", 5)
    /\ Ended(SrcEntryNoReturn, "main") =>
          outcome = Returned(VNone) /\ GlobalIs("t", 6)

\* the return value of the entry call is run's result
EntryValueReturned ==
    [][(phase = "exec" /\ phase' = "finished" /\ outcome'.status = "returned"
        /\ ValidEntry) =>
          /\ ctl.k = "value"
          /\ outcome'.value = ctl.v
          /\ stack = <<RunFrame("entrypoint", stack[1].i)>>]_vars

(***************************************************************************)
(* C10.  run(program, entry): a hoisted entry function is called, with no  *)
(* arguments, once no top-level statement is left to execute, and run      *)
(* returns what the call returned, None when no return fired; without a    *)
(* valid entry run returns None.                                           *)
(***************************************************************************)
EntryInvokedAfterTopLevel == []EntryResult /\ EntryValueReturned

\* SrcEntry has run with entry main: main saw the 5 that the statement after it
\* assigned
EntryRanLast ==
    /\ Ended(SrcEntry, "main")
    /\ outcome = Returned(VInt(6))

\* a return signal is propagating
ReturnPropagating ==
    Executing("raise") /\ ctl.exc.type = "ReturnSignal"

\* the results of the programs that return from inside nested constructs: the
\* call of SrcReturnNested yields 42 on the second round of its while loop
\* (n = 2), from the second round of its for loop, and the caller goes on
ReturnResults ==
    /\ Ended(SrcReturnNested, NoEntry) =>
          /\ outcome.status = "returned"
          /\ GlobalIs("r", 142) /\ GlobalIs("after", 1) /\ GlobalIs("n", 2)
    /\ Ended(SrcUnary, "main") => outcome = Returned(VInt(40))
    /\ Ended(SrcBlockReturn, NoEntry) => GlobalIs("r", 1)
    /\ Ended(SrcTopReturn, NoEntry) => outcome.status = "raised"

\* the way of a return signal: through every activation up to the nearest call,
\* which returns its value; out of run when there is no call; a for loop on the
\* way runs its finally clause and lets the signal go on
ReturnUnwinds ==
    [][/\ ReturnPropagating =>
             /\ envs' = envs
             /\ CASE Top.k = "call" ->
                       ctl' = Value(ctl.exc.value) /\ stack' = Pop
                  [] Top.k = "run" ->
                       phase' = "finished" /\ outcome' = Raised(ctl.exc)
                  [] Top.k = "ForStmt" /\ Top.at = "body" ->
                       /\ ctl' = Exec(Top.node.increment, Top.env)
                       /\ stack' = Append(Pop, [Top EXCEPT !.at = "increment",
                                                           !.pending = ctl])
                  [] OTHER -> ctl' = ctl /\ stack' = Pop
       /\ (/\ Executing("done")
           /\ Top.k = "ForStmt" /\ Top.at = "increment"
           /\ Top.pending.k = "raise") =>
             ctl' = Top.pending /\ stack' = Pop]_vars

Scopes(heap, e) == {Chain(heap, e)[i] : i \in DOMAIN Chain(heap, e)}

\* the activations that hold a scope
Scoped == {i \in DOMAIN stack : "env" \in DOMAIN stack[i]}

\* the scopes that name resolution can reach from the code that is executing:
\* those of the activations of the innermost call (or of the top level)
CurrentScopes ==
    UNION {Scopes(envs, stack[i].env) : i \in Scoped \cap Innermost}
    \cup (IF "env" \in DOMAIN ctl THEN Scopes(envs, ctl.env) ELSE {})

\* the local scopes of the callers: what the activations below the innermost
\* call hold, the global scope apart
CallerScopes ==
    UNION {Scopes(envs, stack[i].env) : i \in Scoped \ Innermost} \ {Globals}

\* the results of the callees that use a name only their caller binds: reading
\* and assigning fail, declaring leaves the caller's v at 1 (r = 1 * 10 + 2)
CalleeResults ==
    /\ Ended(SrcCallerLocalRead, NoEntry) => outcome = Raised(NameError("v"))
    /\ Ended(SrcCallerLocalAssign, NoEntry) => outcome = Raised(NameError("v"))
    /\ Ended(SrcCallerLocalLet, NoEntry) =>
          outcome.status = "returned" /\ GlobalIs("r", 12)

\* no scope of a caller is on a chain of the callee
CalleeChains ==
    /\ phase = "exec" => CurrentScopes \cap CallerScopes = {}
    /\ CalleeResults

\* no step of the callee changes a scope of a caller
CallerScopesKept ==
    [][phase = "exec" => \A e \in CallerScopes : envs'[e] = envs[e]]_vars

(***************************************************************************)
(* C12.  Inside a called function names resolve through the call's own     *)
(* fresh environment and then the environment captured at the declaration, *)
(* never the caller's: a variable bound only in a local scope of the       *)
(* caller cannot be read from the callee (NameError) and no assignment in  *)
(* the callee changes it.                                                  *)
(***************************************************************************)
LexicalScoping == []CalleeChains /\ CallerScopesKept

\* SrcCallerLocalRead has run: g failed to read the v that f had bound to 1
CalleeReadFailed ==
    /\ Ended(SrcCallerLocalRead, NoEntry)
    /\ outcome = Raised(NameError("v"))
    /\ \E e \in DOMAIN envs :
          /\ "v" \in DOMAIN envs[e].values
          /\ envs[e].values["v"] = VInt(1)

\* every scope that some activation, or the code that is executing, can reach
ReachableScopes ==
    UNION {Scopes(envs, stack[i].env) : i \in Scoped}
    \cup (IF "env" \in DOMAIN ctl THEN Scopes(envs, ctl.env) ELSE {})
    \cup {Globals}

\* an exec_block activation ends: its loop is over, or an exception passes
BlockEnds ==
    /\ phase = "exec" /\ Top.k = "exec_block"
    /\ Len(stack') < Len(stack)

\* the k declared in a block is unbound after the block, however it was left,
\* while what the block did outside itself (n, r) stays
BlockResults ==
    /\ \A src \in {SrcBlockEnd, SrcBlockBreak, SrcBlockContinue, SrcBlockReturn} :
          Ended(src, NoEntry) =>
              /\ outcome = Raised(NameError("k"))
              /\ "k" \notin DOMAIN envs[Globals].values
    /\ Ended(SrcBlockContinue, NoEntry) => GlobalIs("n", 1)
    /\ Ended(SrcBlockReturn, NoEntry) => GlobalIs("r", 1)

\* the scope of a block that has ended is reachable no more
BlockScopeDropped ==
    [][BlockEnds => Top.env \notin ReachableScopes']_vars

(***************************************************************************)
(* C13.  A name first bound by `let` inside a brace block is bound in no   *)
(* environment reachable after the block ends, so a read of it then fails  *)
(* with NameError, whether the block was left normally, by break or        *)
(* continue, or by return.                                                 *)
(***************************************************************************)
BlockScopeDiscarded == []BlockResults /\ BlockScopeDropped

\* SrcBlockReturn has run: the block of f bound k, f returned it from inside
\* the block, and the read of k after the call failed
BlockLeftByReturn ==
    /\ Ended(SrcBlockReturn, NoEntry)
    /\ GlobalIs("r", 1)
    /\ outcome = Raised(NameError("k"))
    /\ \E e \in DOMAIN envs : "k" \in DOMAIN envs[e].values

\* the condition of an if, while or for has its value and a substatement is
\* about to execute: BodyTaken
BodyTaken ==
    IF Top.k = "IfStmt"
    THEN IF truthy(ctl.v) THEN Top.node.then_branch ELSE Top.node.else_branch
    ELSE Top.node.body

AtBody ==
    /\ Executing("value")
    /\ Top.k \in {"IfStmt", "WhileStmt", "ForStmt"}
    /\ Top.k = "IfStmt" \/ truthy(ctl.v)
    /\ BodyTaken.k # "None"

\* the parser has returned the Program
Parsed == phase \in {"hoist", "exec", "finished"}

\* the substatement of the construct in the sources with a bare / brace body
SubstatementOf(src) ==
    CASE src \in {SrcBareIf, SrcBracedIf} -> program.statements[1].then_branch
      [] src = SrcBareElse -> program.statements[1].else_branch
      [] src \in {SrcBareWhile, SrcBracedWhile} -> program.statements[3].body
      [] src \in {SrcBareFor, SrcBracedFor} -> program.statements[2].body

\* in the AST a bare substatement is the statement's node, a brace block the
\* list of its statements; the k of a bare `let` is bound after the construct
\* (r reads it), that of a `let` in braces is not
BodyForms ==
    /\ \A src \in {SrcBareIf, SrcBareElse, SrcBareWhile, SrcBareFor} :
          /\ (source = src /\ Parsed) => SubstatementOf(src).k = "VarDecl"
          /\ Ended(src, NoEntry) =>
                /\ outcome.status = "returned"
                /\ "k" \in DOMAIN envs[Globals].values
                /\ "r" \in DOMAIN envs[Globals].values
                /\ envs[Globals].values["r"] = envs[Globals].values["k"]
    /\ \A src \in {SrcBracedIf, SrcBracedWhile, SrcBracedFor} :
          /\ (source = src /\ Parsed) =>
                /\ SubstatementOf(src).k = "list"
                /\ Len(SubstatementOf(src).items) = 1
                /\ SubstatementOf(src).items[1].k = "VarDecl"
          /\ Ended(src, NoEntry) =>
                /\ outcome = Raised(NameError("k"))
                /\ "k" \notin DOMAIN envs[Globals].values

\* a bare substatement executes in the scope of its construct and no scope is
\* created; a brace block executes in a new scope, child of that scope
BodyScope ==
    [][AtBody =>
          IF BodyTaken.k = "list"
          THEN /\ envs' = Append(envs, Env(Top.env))
               /\ stack'[Len(stack')].k = "exec_block"
               /\ stack'[Len(stack')].env = Len(envs')
               /\ stack'[Len(stack')].statements = BodyTaken.items
          ELSE /\ envs' = envs
               /\ ctl' = Exec(BodyTaken, Top.env)]_vars

(***************************************************************************)
(* C14.  The body of an if/while/for that is a single bare statement       *)
(* executes in the enclosing scope, so a `let` in a bare branch is         *)
(* readable after the construct; the same `let` inside a brace-block body  *)
(* executes in a fresh scope and is not readable afterwards.  The parser   *)
(* keeps the two forms distinct in the AST: a statement list, a node.      *)
(***************************************************************************)
BareBodyInEnclosingScope == []BodyForms /\ BodyScope

\* SrcBareWhile has run: the bare body bound k, which r read after the loop
BareWhileRead ==
    /\ Ended(SrcBareWhile, NoEntry)
    /\ GlobalIs("k", 1) /\ GlobalIs("r", 1)

\* the NameError of Env.get for name
Undefined(name) ==
    [type |-> "NameError",
     value |-> [t |-> "str", v |-> "Undefined variable '" \o name \o "'"]]

\* the read fails at once, with the name in the error, and the heap is as it was
ReadFails ==
    [][ReadUnbound =>
          /\ ctl' = [k |-> "raise", exc |-> Undefined(ctl.node.name.value)]
          /\ envs' = envs
          /\ stack' = stack]_vars

\* the programs that read an unbound name: at top level, and in a callee
ReadResults ==
    /\ Ended(SrcReadUnbound, NoEntry) =>
          /\ outcome = [status |-> "raised", exc |-> Undefined("y")]
          /\ DOMAIN envs[Globals].values = {"print"}
    /\ Ended(SrcCallerLocalRead, NoEntry) =>
          outcome = [status |-> "raised", exc |-> Undefined("v")]

(***************************************************************************)
(* C15.  Reading an identifier that no environment of the current scope    *)
(* chain, the global one included, binds fails with a NameError that names *)
(* the identifier, and changes no binding.                                 *)
(***************************************************************************)
UnboundReadIsNameError == []ReadResults /\ ReadFails

\* SrcReadUnbound has run: the read of y failed
ReadOfYFailed ==
    /\ Ended(SrcReadUnbound, NoEntry)
    /\ outcome.status = "raised"
    /\ outcome.exc.type = "NameError"
    /\ outcome.exc.value.v = "Undefined variable 'y'"

\* callee and arguments of a call expression are evaluated: the call is next
AtCall ==
    /\ Executing("value") /\ Top.k = "CallExpr"
    /\ \/ Top.at = "callee" /\ Len(Top.node.args) = 0
       \/ Top.at = "args" /\ Len(Top.args) + 1 = Len(Top.node.args)

Callee == IF Top.at = "callee" THEN ctl.v ELSE Top.callee_val

\* a declared function is about to be called with the wrong number of arguments
ArityMismatch ==
    /\ AtCall
    /\ Callee.t = "Function"
    /\ Len(Callee.v.params) # Len(Top.node.args)

\* the call fails at once: no activation of the function, no Env, no binding
ArityFails ==
    [][ArityMismatch =>
          /\ ctl'.k = "raise" /\ ctl'.exc.type = "RuntimeError"
          /\ envs' = envs
          /\ stack' = Pop]_vars

\* the failed calls: the error's text, and n, which the bodies would have
\* counted up, still 0
ArityResults ==
    /\ Ended(SrcArity, NoEntry) =>
          /\ outcome.status = "raised"
          /\ outcome.exc.type = "RuntimeError"
          /\ outcome.exc.value.v = "Function add expected 2 args, got 1"
          /\ GlobalIs("n", 0)
          /\ "r" \notin DOMAIN envs[Globals].values
    /\ Ended(SrcArityMany, NoEntry) =>
          /\ outcome.status = "raised"
          /\ outcome.exc.type = "RuntimeError"
          /\ outcome.exc.value.v = "Function one expected 1 args, got 3"
          /\ GlobalIs("n", 0)
    /\ Ended(SrcMainParam, "main") =>
          /\ outcome.status = "raised"
          /\ outcome.exc.value.v = "Function main expected 1 args, got 0"
          /\ Len(envs) = 1

(***************************************************************************)
(* C16.  Calling a declared function with a number of arguments different  *)
(* from its parameter count fails with an arity error that carries the     *)
(* function name and the expected and actual counts; no statement of the   *)
(* body executes and no binding of any existing environment changes.       *)
(***************************************************************************)
ArityMismatchFails == []ArityResults /\ ArityFails

\* SrcArity has run: add, of two parameters, was called with one argument
ArityFailed ==
    /\ Ended(SrcArity, NoEntry)
    /\ outcome.status = "raised"
    /\ outcome.exc.value.v = "Function add expected 2 args, got 1"

\* the falsy values: the absence value, false, the number zero, the empty string
Falsy(val) ==
    \/ val = [t |-> "none", v |-> 0]
    \/ val = [t |-> "bool", v |-> 0]
    \/ val = [t |-> "int", v |-> 0]
    \/ val = [t |-> "str", v |-> ""]

\* the boolean that a truthiness test of val gives
Boolean(val) == [t |-> "bool", v |-> IF Falsy(val) THEN 0 ELSE 1]

\* an operand of a && or || has its value
AtLogical(at) ==
    /\ Executing("value")
    /\ Top.k = "BinaryExpr" /\ Top.at = at
    /\ Top.node.operator.value \in {"&&", "||"}

\* the left operand decides: a falsy left of && and a truthy left of || are the
\* result, as booleans, and the right operand is not evaluated; otherwise the
\* right operand is evaluated and its truthiness is the result
LogicalSteps ==
    [][/\ AtLogical("left") =>
             IF (Top.node.operator.value = "&&") = Falsy(ctl.v)
             THEN ctl' = Value(Boolean(ctl.v)) /\ stack' = Pop
             ELSE /\ ctl' = Eval(Top.node.right, Top.env)
                  /\ Len(stack') = Len(stack)
       /\ AtLogical("right") =>
             ctl' = Value(Boolean(ctl.v)) /\ stack' = Pop]_vars

\* SrcShortCircuit: side() ran for `true && side()` and `false || side()` only
\* (n = 2), and every result is a boolean, not the 7 that side() returns
LogicalResults ==
    /\ (source = SrcShortCircuit /\ "n" \in DOMAIN envs[Globals].values) =>
          /\ GlobalInt("n") <= 2
          /\ "q" \notin DOMAIN envs[Globals].values => GlobalInt("n") = 0
          /\ "r" \notin DOMAIN envs[Globals].values => GlobalInt("n") <= 1
    /\ Ended(SrcShortCircuit, NoEntry) =>
          /\ outcome.status = "returned"
          /\ GlobalIs("n", 2)
          /\ envs[Globals].values["p"] = VBool(FALSE)
          /\ envs[Globals].values["q"] = VBool(TRUE)
          /\ envs[Globals].values["r"] = VBool(TRUE)
          /\ envs[Globals].values["s"] = VBool(TRUE)
          /\ envs[Globals].values["t"] = VBool(TRUE)
          /\ envs[Globals].values["u"] = VBool(FALSE)

(***************************************************************************)
(* C17.  In `a && b`, b is evaluated only when a is truthy; in `a || b`,   *)
(* b is evaluated only when a is falsy; the result is a boolean, never the *)
(* operand's value.  A call with a side effect as right operand of         *)
(* `false && ...` or `true || ...` is never executed.                      *)
(***************************************************************************)
LogicalShortCircuit == []LogicalResults /\ LogicalSteps

\* SrcShortCircuit has run: two of its six right operands were evaluated
ShortCircuited ==
    /\ Ended(SrcShortCircuit, NoEntry)
    /\ GlobalIs("n", 2)
    /\ envs[Globals].values["p"] = VBool(FALSE)
    /\ envs[Globals].values["q"] = VBool(TRUE)

\* the condition of an if statement has its value
AtIf == Executing("value") /\ Top.k = "IfStmt"

\* the step executes the substatement B of the if statement, whose activation
\* is over: a block as a block, a bare statement as itself
Branches(B) ==
    IF B.k = "list"
    THEN /\ stack' = Append(Pop, [k |-> "exec_block", statements |-> B.items,
                                   i |-> 0, env |-> Len(envs')])
         /\ ctl' = Done
    ELSE /\ stack' = Pop
         /\ ctl' = Exec(B, Top.env)

\* one branch, chosen by the truthiness of the condition's value, or none
IfSteps ==
    [][AtIf =>
          IF ~Falsy(ctl.v) THEN Branches(Top.node.then_branch)
          ELSE IF Top.node.else_branch.k # "None"
          THEN Branches(Top.node.else_branch)
          ELSE ctl' = Done /\ stack' = Pop /\ envs' = envs]_vars

\* SrcIfTruthiness: d counts the conditions evaluated, t the then-branches (by
\* 1 for the falsy values, by 10 for the truthy ones), e the else-branches
IfResults ==
    /\ (source = SrcIfTruthiness /\ phase \in {"exec", "finished"}
        /\ {"d", "t", "e"} \subseteq DOMAIN envs[Globals].values) =>
          /\ GlobalInt("t") \in {0, 10, 20, 30, 40}
          /\ GlobalInt("e") <= 4
          /\ GlobalInt("e") + GlobalInt("t") \div 10 <= GlobalInt("d")
          /\ GlobalInt("d") <= GlobalInt("e") + GlobalInt("t") \div 10 + 1
    /\ Ended(SrcIfTruthiness, NoEntry) =>
          /\ outcome.status = "returned"
          /\ GlobalIs("d", 9) /\ GlobalIs("t", 40) /\ GlobalIs("e", 4)
    /\ Ended(SrcIfBool, "main") => outcome = Returned(VInt(2))

(***************************************************************************)
(* C18.  An if statement evaluates its condition once and executes the     *)
(* then-branch exactly when the value is truthy (anything but the absence  *)
(* value, false, the number zero and the empty string), otherwise the      *)
(* else-branch when there is one; never both branches.                     *)
(***************************************************************************)
IfExecutesOneBranch == []IfResults /\ IfSteps

\* SrcIfTruthiness has run: four else-branches, four then-branches, and the
\* ninth if, on 0 without else, ran neither
IfBranchesCounted ==
    /\ Ended(SrcIfTruthiness, NoEntry)
    /\ GlobalIs("d", 9) /\ GlobalIs("t", 40) /\ GlobalIs("e", 4)

\* the activation on top of the stack is a while loop
AtWhile(kind) == Executing(kind) /\ Top.k = "WhileStmt"

\* the step goes back to the condition check of the while loop on top
Rechecks ==
    /\ ctl' = Eval(Top.node.condition, Top.env)
    /\ Len(stack') = Len(stack)
    /\ stack'[Len(stack)].k = "WhileStmt"
    /\ SubSeq(stack', 1, Len(stack) - 1) = Pop

\* the step ends the while loop on top and nothing else
EndsLoop == ctl' = Done /\ stack' = Pop

\* the steps of a while loop: a falsy condition ends it, a truthy one starts
\* the body under the loop's activation; after the body, and on continue, the
\* condition is checked again; break ends the loop, the condition unchecked
WhileSteps ==
    [][/\ AtWhile("value") =>
             IF Falsy(ctl.v) THEN EndsLoop
             ELSE /\ ctl'.k \in {"exec", "done"}
                  /\ Len(stack') >= Len(stack)
                  /\ stack'[Len(stack)].k = "WhileStmt"
       /\ AtWhile("done") => Rechecks
       /\ (AtWhile("raise") /\ Top.at = "body") =>
             CASE ctl.exc.type = "ContinueSignal" -> Rechecks
               [] ctl.exc.type = "BreakSignal" -> EndsLoop
               [] OTHER -> ctl' = ctl /\ stack' = Pop]_vars

\* a break or continue on its way to its loop: through the blocks and ifs of
\* the body, one activation a step, so that the first loop it meets takes it
SignalFindsLoop ==
    [][(LoopSignal /\ steps < MaxSteps
        /\ Top.k \notin {"WhileStmt", "ForStmt", "call", "run"}) =>
          ctl' = ctl /\ stack' = Pop]_vars

\* the counted loops: d counts the condition, b the bodies started, w the
\* bodies finished.  The inner loop of SrcWhileNested is left by break in its
\* third round, twice: the outer loop goes on (o = 2), p counts the rounds
\* after the continue of the first, q those before the break of the third
WhileResults ==
    /\ (source \in {SrcWhileCounted, SrcWhileEnd}
        /\ phase \in {"exec", "finished"}
        /\ {"d", "b", "w"} \subseteq DOMAIN envs[Globals].values) =>
          /\ GlobalInt("b") <= GlobalInt("d")
          /\ GlobalInt("d") <= GlobalInt("b") + 1
          /\ GlobalInt("w") <= GlobalInt("b")
    /\ Ended(SrcWhileCounted, NoEntry) =>
          /\ outcome.status = "returned"
          /\ GlobalIs("n", 4) /\ GlobalIs("d", 4)
          /\ GlobalIs("b", 4) /\ GlobalIs("w", 2)
    /\ Ended(SrcWhileEnd, NoEntry) =>
          /\ outcome.status = "returned"
          /\ GlobalIs("n", 3) /\ GlobalIs("d", 4)
          /\ GlobalIs("b", 3) /\ GlobalIs("w", 2)
    /\ Ended(SrcWhileNested, NoEntry) =>
          /\ outcome.status = "returned"
          /\ GlobalIs("o", 2) /\ GlobalIs("i", 3)
          /\ GlobalIs("p", 4) /\ GlobalIs("q", 2)
    /\ Ended(SrcWhile, "main") => outcome = Returned(VInt(0))

(***************************************************************************)
(* C19.  A while loop evaluates its condition before every iteration and   *)
(* stops at the first falsy value; continue skips the rest of the          *)
(* iteration and goes back to the condition check; break ends the loop     *)
(* without another check; in nested loops a break or continue affects the  *)
(* innermost loop around it only.                                          *)
(***************************************************************************)
WhileLoop == []WhileResults /\ WhileSteps /\ SignalFindsLoop

\* SrcWhileCounted has run: four checks, four bodies, one cut by continue and
\* the last by break
WhileCounted ==
    /\ Ended(SrcWhileCounted, NoEntry)
    /\ GlobalIs("d", 4) /\ GlobalIs("b", 4) /\ GlobalIs("w", 2)

(***************************************************************************)
(* The parser on expressions of two binary operators: the sources          *)
(* `1 a 2 b 3;`, `(1 a 2) b 3;` and `1 a (2 b 3);` for all operators a, b, *)
(* and the two assignments of parser_expr_test.py, tokenized and parsed.   *)
(***************************************************************************)
ExprOps ==
    {"||", "&&", "==", "!=", "<", "<=", ">", ">=", "+", "-", "*", "/", "%"}

PlainExpr(a, b) == "1 " \o a \o " 2 " \o b \o " 3;"

LeftParenExpr(a, b) == "(1 " \o a \o " 2) " \o b \o " 3;"

RightParenExpr(a, b) == "1 " \o a \o " (2 " \o b \o " 3);"

\* parser_expr_test.py, test_precedence_add_mul
SrcAssignAddMul == "x = 1 + 2 * 3;"

\* parser_expr_test.py, test_parenthesized_changes_precedence
SrcAssignParen == "x = (1 + 2) * 3;"

\* the prefix operators of parse_unary
PrefixOps == {"!", "-"}

PrefixThenBinary(u, b) == u \o "1 " \o b \o " 2;"

BinaryThenPrefix(a, u) == "1 " \o a \o " " \o u \o "2;"

PrefixTwice(u, v) == u \o " " \o v \o "1;"

\* parser_expr_test.py, test_unary_minus
SrcAssignMinus == "x = -1;"

SrcSubtractions == "a - b - c;"

SrcMinusTimes == "-a * b;"

SrcNotNot == "!!a;"

PrefixInputs ==
    {PrefixThenBinary(u, b) : u \in PrefixOps, b \in ExprOps}
    \cup {BinaryThenPrefix(a, u) : a \in ExprOps, u \in PrefixOps}
    \cup {PrefixTwice(u, v) : u \in PrefixOps, v \in PrefixOps}
    \cup {SrcAssignMinus, SrcSubtractions, SrcMinusTimes, SrcNotNot}

ExprInputs ==
    {PlainExpr(a, b) : a \in ExprOps, b \in ExprOps}
    \cup {LeftParenExpr(a, b) : a \in ExprOps, b \in ExprOps}
    \cup {RightParenExpr(a, b) : a \in ExprOps, b \in ExprOps}
    \cup {SrcAssignAddMul, SrcAssignParen}
    \cup PrefixInputs

InitParse ==
    /\ source \in ExprInputs
    /\ entrypoint = NoEntry
    /\ phase = "tokenize"
    /\ lexer = LexerStart
    /\ tokens = <<>>
    /\ parser = [current_token_index |-> 0, frames |-> <<>>, statements |-> <<>>]
    /\ program = Program(<<>>)
    /\ hoisted = 0
    /\ functions = <<>>
    /\ envs = <<[parent |-> NoParent,
                 values |-> Bind(<<>>, "print", VBuiltin("print"))]>>
    /\ ctl = Idle
    /\ stack = <<>>
    /\ output = <<>>
    /\ outcome = Running
    /\ steps = 0

NextParse ==
    \/ TokenizeStep
    \/ TokenizeReturn
    \/ ParseStatement
    \/ ParseReturn

SpecParse == InitParse /\ [][NextParse]_vars

\* the levels of the binary operators, from the loosest
Precedence(op) ==
    CASE op = "||" -> 1
      [] op = "&&" -> 2
      [] op \in {"==", "!="} -> 3
      [] op \in {"<", "<=", ">", ">="} -> 4
      [] op \in {"+", "-"} -> 5
      [] op \in {"*", "/", "%"} -> 6

IsNumeral(node, digit) == node.k = "Literal" /\ node.value.value = digit

IsBinary(node, op) == node.k = "BinaryExpr" /\ node.operator.value = op

\* (1 a 2) b 3: the operation a is the left operand of b
LeftNested(e, a, b) ==
    /\ IsBinary(e, b)
    /\ IsBinary(e.left, a)
    /\ IsNumeral(e.left.left, "1") /\ IsNumeral(e.left.right, "2")
    /\ IsNumeral(e.right, "3")

\* 1 a (2 b 3): the operation b is the right operand of a
RightNested(e, a, b) ==
    /\ IsBinary(e, a)
    /\ IsNumeral(e.left, "1")
    /\ IsBinary(e.right, b)
    /\ IsNumeral(e.right.left, "2") /\ IsNumeral(e.right.right, "3")

\* the parser has returned a Program of one statement
ParsedOne == phase = "hoist" /\ Len(program.statements) = 1

(***************************************************************************)
(* C20.  For two binary operators of different precedence levels           *)
(* (`||` < `&&` < `== !=` < `< <= > >=` < `+ -` < `* / %`) the operation   *)
(* of the higher level is a child of that of the lower level, whatever     *)
(* their order in the source, and a parenthesized subexpression is one     *)
(* operand: `1 + 2 * 3` has the multiplication as right operand of the     *)
(* addition, `(1 + 2) * 3` the addition as left operand of the             *)
(* multiplication.                                                         *)
(***************************************************************************)
PrecedenceShapesTree ==
    /\ (phase = "hoist" \/ outcome.status = "raised") =>
          /\ ParsedOne
          /\ \A a, b \in ExprOps :
                /\ (source = PlainExpr(a, b) /\ Precedence(a) < Precedence(b)) =>
                      RightNested(program.statements[1], a, b)
                /\ (source = PlainExpr(a, b) /\ Precedence(a) > Precedence(b)) =>
                      LeftNested(program.statements[1], a, b)
                /\ source = LeftParenExpr(a, b) =>
                      LeftNested(program.statements[1], a, b)
                /\ source = RightParenExpr(a, b) =>
                      RightNested(program.statements[1], a, b)
          /\ source = SrcAssignAddMul =>
                /\ program.statements[1].k = "AssignStmt"
                /\ RightNested(program.statements[1].value, "+", "*")
          /\ source = SrcAssignParen =>
                /\ program.statements[1].k = "AssignStmt"
                /\ LeftNested(program.statements[1].value, "+", "*")

\* `1 * 2 + 3;` is parsed: the multiplication, first in the source, is the
\* left operand of the addition
MulThenAddParsed ==
    /\ source = PlainExpr("*", "+")
    /\ ParsedOne
    /\ LeftNested(program.statements[1], "*", "+")

IsPrefix(node, op) == node.k = "UnaryExpr" /\ node.operator.value = op

IsName(node, name) == node.k = "Identifier" /\ node.name.value = name

\* the one statement of the Program that the parser returned
TheStatement == program.statements[1]

\* the shapes of the sources with prefix operators
PrefixShapes ==
    /\ \A u \in PrefixOps, b \in ExprOps :
          /\ source = PrefixThenBinary(u, b) =>
                /\ IsBinary(TheStatement, b)
                /\ IsPrefix(TheStatement.left, u)
                /\ IsNumeral(TheStatement.left.operand, "1")
                /\ IsNumeral(TheStatement.right, "2")
          /\ source = BinaryThenPrefix(b, u) =>
                /\ IsBinary(TheStatement, b)
                /\ IsNumeral(TheStatement.left, "1")
                /\ IsPrefix(TheStatement.right, u)
                /\ IsNumeral(TheStatement.right.operand, "2")
    /\ \A u \in PrefixOps, v \in PrefixOps :
          source = PrefixTwice(u, v) =>
             /\ IsPrefix(TheStatement, u)
             /\ IsPrefix(TheStatement.operand, v)
             /\ IsNumeral(TheStatement.operand.operand, "1")
    /\ source = SrcAssignMinus =>
          /\ TheStatement.k = "AssignStmt"
          /\ IsPrefix(TheStatement.value, "-")
          /\ IsNumeral(TheStatement.value.operand, "1")
    /\ source = SrcMinusTimes =>
          /\ IsBinary(TheStatement, "*")
          /\ IsPrefix(TheStatement.left, "-")
          /\ IsName(TheStatement.left.operand, "a")
          /\ IsName(TheStatement.right, "b")
    /\ source = SrcNotNot =>
          /\ IsPrefix(TheStatement, "!")
          /\ IsPrefix(TheStatement.operand, "!")
          /\ IsName(TheStatement.operand.operand, "a")

(***************************************************************************)
(* C21.  Two binary operators of the same precedence level associate to    *)
(* the left: `1 a 2 b 3` is parsed with the operation a as the left        *)
(* operand of b (`a - b - c` as `(a - b) - c`).  The prefix operators `!`   *)
(* and `-` bind tighter than every binary operator, on either side of it   *)
(* (`-a * b` is `(-a) * b`), and nest to the right (`!!a` is `!(!a)`).      *)
(***************************************************************************)
AssociativityShapesTree ==
    (phase = "hoist" \/ outcome.status = "raised") =>
       /\ ParsedOne
       /\ \A a, b \in ExprOps :
             (source = PlainExpr(a, b) /\ Precedence(a) = Precedence(b)) =>
                LeftNested(TheStatement, a, b)
       /\ source = SrcSubtractions =>
             /\ IsBinary(TheStatement, "-")
             /\ IsBinary(TheStatement.left, "-")
             /\ IsName(TheStatement.left.left, "a")
             /\ IsName(TheStatement.left.right, "b")
             /\ IsName(TheStatement.right, "c")
       /\ PrefixShapes

\* `-1 * 2;` is parsed: the negation is the left operand of the multiplication
NegationTimesParsed ==
    /\ source = PrefixThenBinary("-", "*")
    /\ ParsedOne
    /\ IsBinary(TheStatement, "*")
    /\ IsPrefix(TheStatement.left, "-")

\* Parser.parse raises: the step of the parser that ends the run
ParseFails == phase = "parse" /\ phase' = "finished"

(***************************************************************************)
(* C22.  A token sequence outside the grammar makes parse fail with one    *)
(* SyntaxError and return no Program: the step on which the parser gives   *)
(* up ends the run with an error of the kind SyntaxError, and the Program  *)
(* is not built.                                                           *)
(***************************************************************************)
ParseFailsWithSyntaxError ==
    [][ParseFails =>
          /\ outcome'.status = "raised"
          /\ outcome'.exc.type = "SyntaxError"
          /\ program' = Program(<<>>)]_vars

(***************************************************************************)
(* The lexer alone: tokenize on every text of at most MaxLexLen characters *)
(* of LexAlphabet (the comment and string delimiters, a newline, a blank,  *)
(* the escape, a letter and a character of no lexical rule), and on the     *)
(* sources of src/tests/lexer_test.py.                                     *)
(***************************************************************************)
LexAlphabet == {"/", "*", "\"", "\\", "\n", " ", "a", "$"}

MaxLexLen == 5

RECURSIVE Texts(_)
\* the texts of at most n characters of LexAlphabet
Texts(n) ==
    IF n = 0 THEN {""}
    ELSE LET shorter == Texts(n - 1)
         IN  shorter \cup {t \o c : t \in shorter, c \in LexAlphabet}

SrcSimpleAssignment == "x = 42;"

SrcArithmeticExpression == "result = a + b * 2;"

SrcParenthesesAndBraces == "y = (x + 1) * 3;"

SrcBraces == "{ x = 1; y = 2; }"

SrcFloatNumber == "pi = 3.14;"

SrcUnexpectedCharacter == "x = 5$;"

\* a block comment of two lines, then a token
SrcCommentLines == "x;\n/* c\nd */ y;"

\* a string literal with an escaped newline in it, then a token
SrcStringLines == "s = \"a\\\nb\" + t;"

SrcUnterminatedString == "s = \"abc;\nt;"

SrcUnterminatedComment == "x; /* c\nd"

SrcCommentsAndBlanks == "a /* b */\t+ // c \"d\"\r\n \"e /* f */ // g\" ;"

SrcTwoComments == "/* a */ b /* c */"

LexInputs ==
    Texts(MaxLexLen)
    \cup {SrcSimpleAssignment, SrcArithmeticExpression, SrcParenthesesAndBraces,
          SrcBraces, SrcFloatNumber, SrcUnexpectedCharacter, SrcCommentLines,
          SrcStringLines, SrcUnterminatedString, SrcUnterminatedComment,
          SrcCommentsAndBlanks, SrcTwoComments}

InitLex ==
    /\ source \in LexInputs
    /\ entrypoint = NoEntry
    /\ phase = "tokenize"
    /\ lexer = LexerStart
    /\ tokens = <<>>
    /\ parser = [current_token_index |-> 0, frames |-> <<>>, statements |-> <<>>]
    /\ program = Program(<<>>)
    /\ hoisted = 0
    /\ functions = <<>>
    /\ envs = <<[parent |-> NoParent,
                 values |-> Bind(<<>>, "print", VBuiltin("print"))]>>
    /\ ctl = Idle
    /\ stack = <<>>
    /\ output = <<>>
    /\ outcome = Running
    /\ steps = 0

NextLex ==
    \/ TokenizeStep
    \/ TokenizeReturn

SpecLex == InitLex /\ [][NextLex]_vars

\* tokenize appends a token on this step
TokenAppended == phase = "tokenize" /\ Len(tokens') = Len(tokens) + 1

\* the token this step appends; its first character is at lexer.pos
NewToken == tokens'[Len(tokens')]

RECURSIVE NewlinesBefore(_, _)
\* the number of newline characters of code before position pos
NewlinesBefore(code, pos) ==
    IF pos = 0 THEN 0
    ELSE NewlinesBefore(code, pos - 1)
         + (IF Ch(code, pos - 1) = "\n" THEN 1 ELSE 0)

RECURSIVE SinceNewline(_, _)
\* the number of characters between the last newline before pos (or the
\* start of code) and pos
SinceNewline(code, pos) ==
    IF pos = 0 \/ Ch(code, pos - 1) = "\n" THEN 0
    ELSE 1 + SinceNewline(code, pos - 1)

(***************************************************************************)
(* C23.  Every token carries the position of its first character: its      *)
(* line is one more than the number of newlines of the source before that  *)
(* character and its column one more than the number of characters since   *)
(* the last of them, also after a block comment or a string literal of     *)
(* several lines.                                                          *)
(***************************************************************************)
TokenCarriesPosition ==
    [][TokenAppended =>
          /\ NewToken.line = 1 + NewlinesBefore(source, lexer.pos)
          /\ NewToken.column = 1 + SinceNewline(source, lexer.pos)]_vars

\* tokenize raises: the step of the lexer that ends the run
LexFails == phase = "tokenize" /\ phase' = "finished"

RECURSIVE Decimal(_)
\* the decimal numeral of a natural number
Decimal(n) ==
    IF n < 10 THEN Slice("0123456789", n, n + 1)
    ELSE Decimal(n \div 10) \o Slice("0123456789", n % 10, (n % 10) + 1)

\* part occurs in text
Mentions(text, part) ==
    \E i \in 0..(Len(text) - Len(part)) : Slice(text, i, i + Len(part)) = part

(***************************************************************************)
(* C24.  tokenize fails at the first character that no lexical rule        *)
(* matches, with a SyntaxError that carries that character and its 1-based *)
(* line and column: the error's message names the character and the        *)
(* numerals of the line and the column it stands at.                       *)
(***************************************************************************)
TokenizeFailsWithPosition ==
    [][LexFails =>
          /\ MasterMatch(source, lexer.pos).kind = "NONE"
          /\ outcome'.status = "raised"
          /\ outcome'.exc.type = "SyntaxError"
          /\ Mentions(outcome'.exc.value.v, Ch(source, lexer.pos))
          /\ Mentions(outcome'.exc.value.v,
                      Decimal(1 + NewlinesBefore(source, lexer.pos)))
          /\ Mentions(outcome'.exc.value.v,
                      Decimal(1 + SinceNewline(source, lexer.pos)))]_vars

\* a string literal opens at pos and no quote closes it
UnterminatedString(code, pos) ==
    Ch(code, pos) = "\"" /\ StringBody(code, pos + 1) = -1

\* a block comment opens at pos and no `*/` closes it
UnterminatedComment(code, pos) ==
    /\ pos + 2 <= Len(code)
    /\ Slice(code, pos, pos + 2) = "/*"
    /\ FindCommentEnd(code, pos + 2) = -1

(***************************************************************************)
(* C25.  A string literal with no closing quote and a block comment with   *)
(* no closing star-slash make tokenize fail: when the lexer stands at the   *)
(* opening of either, its step raises SyntaxError and no token is made of  *)
(* it.                                                                     *)
(***************************************************************************)
UnterminatedFails ==
    [][(/\ phase = "tokenize"
        /\ lexer.pos < Len(source)
        /\ \/ UnterminatedString(source, lexer.pos)
           \/ UnterminatedComment(source, lexer.pos)) =>
          /\ LexFails
          /\ outcome'.exc.type = "SyntaxError"
          /\ tokens' = tokens]_vars

RECURSIVE Lexemes(_)
\* the lexemes of a token list, one after the other
Lexemes(toks) ==
    IF toks = <<>> THEN "" ELSE toks[1].value \o Lexemes(Tail(toks))

RECURSIVE Significant(_, _)
\* code from pos on, without its comments and without its whitespace
\* outside string literals, read character by character: a line comment is
\* `//` to the end of the line, a block comment `/*` to the next `*/`, a
\* string literal a quote to its closing quote
Significant(code, pos) ==
    IF pos >= Len(code) THEN ""
    ELSE IF Ch(code, pos) \in {"\n", " ", "\t", "\r"}
         THEN Significant(code, pos + 1)
    ELSE IF pos + 2 <= Len(code) /\ Slice(code, pos, pos + 2) = "//"
         THEN Significant(code, SpanUntilNewline(code, pos + 2))
    ELSE IF /\ pos + 2 <= Len(code)
            /\ Slice(code, pos, pos + 2) = "/*"
            /\ FindCommentEnd(code, pos + 2) # -1
         THEN Significant(code, FindCommentEnd(code, pos + 2))
    ELSE IF Ch(code, pos) = "\"" /\ StringBody(code, pos + 1) # -1
         THEN Slice(code, pos, StringBody(code, pos + 1))
              \o Significant(code, StringBody(code, pos + 1))
    ELSE Ch(code, pos) \o Significant(code, pos + 1)

\* the lexeme is empty, or is or begins with whitespace or a comment
BlankOrComment(lexeme) ==
    \/ lexeme = ""
    \/ Ch(lexeme, 0) \in {"\n", " ", "\t", "\r"}
    \/ Len(lexeme) >= 2 /\ Slice(lexeme, 0, 2) \in {"//", "/*"}

IfAtEndAccepted ==
    source = SrcIfAtEnd => outcome.status # "raised"

(***************************************************************************)
(* C28.  A call binds its parameters in its own fresh environment only: a  *)
(* global named as a parameter keeps its value over the call, the body     *)
(* reads the argument under the parameter's name, and every recursive      *)
(* invocation has its own parameter value (g(3) adds 3, 2 and 1).          *)
(***************************************************************************)
ParametersAreLocal ==
    /\ Ended(SrcParamShadowsGlobal, NoEntry) =>
          GlobalIs("n", 5) /\ GlobalIs("r", 9)
    /\ Ended(SrcRecursionShadowed, NoEntry) =>
          GlobalIs("k", 7) /\ GlobalIs("r", 6)

\* a for loop's body has just been left by a return signal or an error
ForBodyLeft ==
    /\ ForBodyOver
    /\ ctl.k = "raise"
    /\ ctl.exc.type \notin {"BreakSignal", "ContinueSignal"}

\* the increment of a for loop whose body was left by a return signal or an
\* error has just ended normally
ForLeftIncremented ==
    /\ Executing("done")
    /\ Top.k = "ForStmt" /\ Top.at = "increment"
    /\ Top.pending.k = "raise"

\* the step after such a body is the increment, the signal or error held back;
\* the step after the increment hands the signal or error on, out of the loop
ForLeftRunsIncrement ==
    [][/\ ForBodyLeft =>
            /\ ctl' = Exec(Top.node.increment, Top.env)
            /\ stack' = Append(Pop, [Top EXCEPT !.at = "increment",
                                                !.pending = ctl])
       /\ ForLeftIncremented =>
            /\ ctl' = Top.pending
            /\ stack' = Pop]_vars

\* the return of SrcReturnNested is taken with m = 1 and the error of
\* SrcForBodyFails with i = 0: the one increment is seen in the globals, and
\* the returned value and the error arrive
ForLeftResults ==
    /\ Ended(SrcReturnNested, NoEntry) =>
          GlobalIs("m", 2) /\ GlobalIs("r", 142)
    /\ Ended(SrcForBodyFails, NoEntry) =>
          GlobalIs("i", 1) /\ outcome = Raised(NameError("zz"))

ParseVocabulary == {"{", "}", "(", ")", ";", "x ", "if ", "else "}

MaxTokens == 4

RECURSIVE TokenTexts(_)
\* the sources of at most n lexemes of ParseVocabulary
TokenTexts(n) ==
    IF n = 0 THEN {""}
    ELSE LET shorter == TokenTexts(n - 1)
         IN  shorter \cup {t \o w : t \in shorter, w \in ParseVocabulary}

ParseInputs == TokenTexts(MaxTokens) \cup {inp.code : inp \in Inputs}

InitTokens ==
    /\ source \in ParseInputs
    /\ entrypoint = NoEntry
    /\ phase = "tokenize"
    /\ lexer = LexerStart
    /\ tokens = <<>>
    /\ parser = [current_token_index |-> 0, frames |-> <<>>, statements |-> <<>>]
    /\ program = Program(<<>>)
    /\ hoisted = 0
    /\ functions = <<>>
    /\ envs = <<[parent |-> NoParent,
                 values |-> Bind(<<>>, "print", VBuiltin("print"))]>>
    /\ ctl = Idle
    /\ stack = <<>>
    /\ output = <<>>
    /\ outcome = Running
    /\ steps = 0

\* parse or an activation of parse_block, parse_if_stmt, ... is about to call
\* parse_statement
CallsParseStatement ==
    /\ phase = "parse"
    /\ parser.frames # <<>> \/ parser.current_token_index < Len(tokens)

\* WF_vars(ParseStatement), with ENABLED <<ParseStatement>>_vars written out:
\* the step is enabled exactly when parse_statement is about to be called,
\* and it moves the token index or ends the run
ParseStatementFair ==
    []<>~CallsParseStatement \/ []<><<ParseStatement>>_vars

SpecTokens ==
    /\ InitTokens
    /\ [][NextParse]_vars
    /\ WF_vars(ParseReturn)
    /\ ParseStatementFair

\* the token index stays within the token list
IndexWithinTokens ==
    /\ parser.current_token_index >= 0
    /\ parser.current_token_index <= Len(tokens)

\* the call of parse_statement that is about to be made, taken alone: up to
\* its return, or to the call of parse_statement it makes itself
TheCall == parse_statement(tokens, <<>>, parser.current_token_index)

\* a call of parse_statement that does not fail consumes a token
CallConsumes ==
    CallsParseStatement =>
       (TheCall.ok => TheCall.pos > parser.current_token_index)

\* the token index never decreases
IndexNeverDecreases ==
    [][parser'.current_token_index >= parser.current_token_index]_vars

\* a step of the parser that is not its last moves the token index forward
ParserAdvances ==
    [][(phase = "parse" /\ phase' = "parse") =>
          parser'.current_token_index > parser.current_token_index]_vars

(***************************************************************************)
(* C30.  Parser.parse terminates on every token list: the token index      *)
(* never decreases and never exceeds the number of tokens, every call of   *)
(* parse_statement consumes at least one token or fails, and so the loops  *)
(* of parse and parse_block come to their end: the parse is left, by a     *)
(* Program or by an error.                                                 *)
(***************************************************************************)
ParseTerminates ==
    /\ []IndexWithinTokens
    /\ []CallConsumes
    /\ IndexNeverDecreases
    /\ ParserAdvances
    /\ (phase = "parse") ~> (phase \in {"hoist", "finished"})

\* the parse of `{{}}` has ended with one statement, a block within a
\* block: the loops of parse and of parse_block were entered and left
NestedBlocksParsed ==
    /\ source = "{{}}"
    /\ phase = "hoist"
    /\ parser.current_token_index = Len(tokens)
    /\ program.statements = <<StmtList(<<StmtList(<<>>)>>)>>

====
